---- MODULE Spec2Model ----
(***************************************************************************)
(* Trace analysis tools of the BSC repository:                             *)
(*   - Benchmark/utils/analyze_blktrace.py      (streaming pattern analyzer)*)
(*   - disk-benchmarking/utils/analysis_tools.py (extent mapper, batch      *)
(*     analytics engine)                                                    *)
(*   - tensor-tracing/tools/parse_buffer_stats.py (buffer lifecycle replay) *)
(*   - tensor-tracing/tools/parse_trace.py (tensor trace decoder, per-token *)
(*     aggregator)                                                          *)
(* Each tool is a separate program; each has its own specification below.  *)
(***************************************************************************)
EXTENDS Integers, Sequences, FiniteSets, TLC

(***************************************************************************)
(* Python values.  None is the empty tuple, a present value v is <<v>>.    *)
(***************************************************************************)
None == <<>>

Some(v) == <<v>>

Val(o) == o[1]

Abs(x) == IF x < 0 THEN -x ELSE x

Min2(a, b) == IF a <= b THEN a ELSE b

Max2(a, b) == IF a >= b THEN a ELSE b

(* A whitespace-separated token that int()/float() either parses or not.   *)
Num(v) == [numeric |-> TRUE, value |-> v]

NotNum == [numeric |-> FALSE, value |-> 0]

VARIABLES
    stream,           \* the lines of the input consumed so far
    pc_stream,        \* "loop" | "returned"
    total_reads, total_bytes, sequential, random, gap_sum, gap_count,
    prev_ts, prev_sector, prev_size,
    interval_count, interval_sum_ms, interval_min_ms, interval_max_ms,
    results           \* return value of stream_analyze

streamVars == <<stream, pc_stream, total_reads, total_bytes, sequential, random,
                gap_sum, gap_count, prev_ts, prev_sector, prev_size,
                interval_count, interval_sum_ms, interval_min_ms,
                interval_max_ms, results>>

VARIABLES
    filefrag_out,     \* the lines of `filefrag -v`, as printed
    pc_extent,        \* "parse" | "merge" | "returned" | "ValueError"
    extents,          \* the list of (start_block, end_block)
    ext_i,            \* position of the merge loop in extents[1:]
    current_start, current_end,
    merged_extents,
    sector_range      \* the returned (min_sector, max_sector, num_extents)

extentVars == <<filefrag_out, pc_extent, extents, ext_i, current_start,
                current_end, merged_extents, sector_range>>

VARIABLES
    trace,              \* the rows of the CSV, as loaded into table `trace`
    llama_pid,          \* the pid recorded in llama_pid.txt
    gap_small, gap_medium,
    gguf_start_sector, gguf_end_sector,
    pc_batch,           \* "load" | "filtered" | "returned" | "written" | "CatalogException"
    reads,              \* table `reads`
    analysis            \* the document written to analysis.json

batchVars == <<trace, llama_pid, gap_small, gap_medium, gguf_start_sector,
               gguf_end_sector, pc_batch, reads, analysis>>

VARIABLES
    events,            \* the events parse_jsonl has decoded, in file order
    line_num,          \* the number of lines parse_jsonl has read
    pc_buffer,         \* "parse" | "replay" | "done" | "KeyError"
    registry,          \* dict buffer_id -> info, as its items in insertion order
    ev_i,              \* position of the replay loop in events
    timeline,
    active_buffers,    \* dict buffer_id -> size
    cumulative_size,
    occupancy,         \* history: cumulative_size after each replayed event
    metadata

bufferVars == <<events, line_num, pc_buffer, registry, ev_i, timeline, active_buffers,
                cumulative_size, occupancy, metadata>>

VARIABLES
    trace_file,        \* the chunks f.read(ENTRY_SIZE) has returned so far
    pc_trace,          \* "read" | "parsed" | "exported" | "exit1"
    entries,           \* the entries parse_entry has decoded
    entry_num,
    token_files,       \* output directory: file name (token id) -> content
    exports            \* history: the output directory after each export run

traceVars == <<trace_file, pc_trace, entries, entry_num, token_files, exports>>

VARIABLES
    cls_sequential,    \* the sequential and random counts of a finished stream
    cls_random,
    sequential_percent,
    pattern_type,      \* the label main prints and stores
    pc_classify        \* "result" | "percent" | "classified"

classifyVars == <<cls_sequential, cls_random, sequential_percent, pattern_type,
                  pc_classify>>

(* A run of one tool leaves the state of the other tools alone.            *)
StreamFrame == UNCHANGED <<extentVars, batchVars, bufferVars, traceVars,
                           classifyVars>>

ExtentFrame == UNCHANGED <<streamVars, batchVars, bufferVars, traceVars,
                           classifyVars>>

BatchFrame == UNCHANGED <<streamVars, extentVars, bufferVars, traceVars,
                          classifyVars>>

BufferFrame == UNCHANGED <<streamVars, extentVars, batchVars, traceVars,
                           classifyVars>>

TraceFrame == UNCHANGED <<streamVars, extentVars, batchVars, bufferVars,
                          classifyVars>>

ClassifyFrame == UNCHANGED <<streamVars, extentVars, batchVars, bufferVars,
                             traceVars>>

vars == <<streamVars, extentVars, batchVars, bufferVars, traceVars, classifyVars>>

(***************************************************************************)
(* Bounds of the model.                                                    *)
(***************************************************************************)
MaxLines == 3

(***************************************************************************)
(*                    STREAMING PATTERN ANALYZER                           *)
(*                 Benchmark/utils/analyze_blktrace.py                     *)
(***************************************************************************)
SEQUENTIAL_THRESHOLD_SECTORS == 256

(* One blkparse line after line.split(): the number of fields and the      *)
(* fields the analyzers read.  Timestamps are held in milliseconds.        *)
Line(n, ts, action, rwbs, sector, size) ==
    [nparts |-> n, ts |-> ts, action |-> action, rwbs |-> rwbs,
     sector |-> sector, size |-> size]

ReadSectors == {1000, 1008, 1264, 5000}

TsValues == {0, 500}

(* The lines blkparse can print at time ts.                                *)
LinesAt(ts) ==
    {Line(11, Num(ts), "D", <<"R">>, Num(s), Num(8)) : s \in ReadSectors}
    \cup {Line(11, Num(ts), "Q", <<"R">>, Num(s), Num(8)) : s \in {1000, 5000}}
    \cup {Line(11, Num(ts), "D", <<"R">>, Num(1000), Num(16)),
          Line(11, Num(ts), "D", <<"R", "A">>, Num(1008), Num(8)),
          Line(11, Num(ts), "D", <<"W", "S">>, Num(1008), Num(8)),
          Line(11, Num(ts), "C", <<"R">>, NotNum, Num(8)),
          Line(4, NotNum, "", <<>>, NotNum, NotNum)}

(* blkparse prints in time order: a line is not older than the ones before *)
LastTs(lines) ==
    LET stamped == {i \in DOMAIN lines : lines[i].ts.numeric}
    IN  IF stamped = {} THEN 0
        ELSE lines[CHOOSE i \in stamped : \A j \in stamped : j <= i].ts.value

NextLines(lines) ==
    UNION {LinesAt(ts) : ts \in {t \in TsValues : t >= LastTs(lines)}}

(* 'R' in rwbs *)
HasR(rwbs) == \E i \in DOMAIN rwbs : rwbs[i] = "R"

(* Mutant: a sector that is not a number raises nothing.                   *)
ParsesOk_IgnoreSector(line) == line.ts.numeric /\ line.size.numeric

(* float(ts_str), int(sector_str), int(size_str) raise no ValueError *)
ParsesOk(line) == line.ts.numeric /\ line.sector.numeric /\ line.size.numeric

(* The line reaches the accumulators (none of the three `continue`s).      *)
Counted(line) == line.nparts >= 10 /\ HasR(line.rwbs) /\ ParsesOk(line)

ExpectedNext(p_sector, p_size) == p_sector + p_size

(* Mutant: the signed distance, without abs().                             *)
Gap_Signed(sector, expected_next) == sector - expected_next

Gap(sector, expected_next) == Abs(sector - expected_next)

(* Mutant: the threshold itself counts as random.                          *)
IsSequentialGap_Strict(gap) == gap < SEQUENTIAL_THRESHOLD_SECTORS

IsSequentialGap(gap) == gap <= SEQUENTIAL_THRESHOLD_SECTORS

StreamInit ==
    /\ stream = <<>>
    /\ pc_stream = "loop"
    /\ total_reads = 0
    /\ total_bytes = 0
    /\ sequential = 0
    /\ random = 0
    /\ gap_sum = 0
    /\ gap_count = 0
    /\ prev_ts = None
    /\ prev_sector = None
    /\ prev_size = None
    /\ interval_count = 0
    /\ interval_sum_ms = 0
    /\ interval_min_ms = None
    /\ interval_max_ms = None
    /\ results = None

StreamAccumulators == <<total_reads, total_bytes, sequential, random, gap_sum,
                        gap_count, prev_ts, prev_sector, prev_size,
                        interval_count, interval_sum_ms, interval_min_ms,
                        interval_max_ms>>

(* for line in stream: another line is read *)
StreamReading == pc_stream = "loop" /\ Len(stream) < MaxLines

(* if len(parts) < 10: continue *)
StreamSkipShort(line) ==
    /\ StreamReading
    /\ line.nparts < 10
    /\ stream' = Append(stream, line)
    /\ UNCHANGED <<pc_stream, results, StreamAccumulators>>
    /\ StreamFrame

(* if 'R' not in rwbs: continue *)
StreamSkipNonRead(line) ==
    /\ StreamReading
    /\ line.nparts >= 10
    /\ ~HasR(line.rwbs)
    /\ stream' = Append(stream, line)
    /\ UNCHANGED <<pc_stream, results, StreamAccumulators>>
    /\ StreamFrame

(* except ValueError: continue *)
StreamSkipValueError(line) ==
    /\ StreamReading
    /\ line.nparts >= 10
    /\ HasR(line.rwbs)
    /\ ~ParsesOk(line)
    /\ stream' = Append(stream, line)
    /\ UNCHANGED <<pc_stream, results, StreamAccumulators>>
    /\ StreamFrame

(* Mutant: the length is taken as a number of 4096-byte blocks.            *)
SizeBytes_Blocks(size_sectors) == size_sectors * 4096

(* size_bytes = size_sectors * 512 *)
SizeBytes(size_sectors) == size_sectors * 512

(* The body of the loop for a line that is counted.                        *)
StreamCount(line) ==
    LET ts == line.ts.value
        sector == line.sector.value
        size_sectors == line.size.value
        size_bytes == SizeBytes(size_sectors)
    IN
    /\ StreamReading
    /\ Counted(line)
    /\ stream' = Append(stream, line)
    /\ total_reads' = total_reads + 1
    /\ total_bytes' = total_bytes + size_bytes
    /\ IF prev_sector # None
       THEN LET expected_next == ExpectedNext(Val(prev_sector), Val(prev_size))
                gap == Gap(sector, expected_next)
                interval_ms == ts - Val(prev_ts)
            IN  /\ gap_sum' = gap_sum + gap
                /\ gap_count' = gap_count + 1
                /\ IF IsSequentialGap(gap)
                   THEN sequential' = sequential + 1 /\ random' = random
                   ELSE random' = random + 1 /\ sequential' = sequential
                /\ interval_count' = interval_count + 1
                /\ interval_sum_ms' = interval_sum_ms + interval_ms
                /\ interval_min_ms' =
                       IF interval_min_ms = None THEN Some(interval_ms)
                       ELSE Some(Min2(Val(interval_min_ms), interval_ms))
                /\ interval_max_ms' =
                       IF interval_max_ms = None THEN Some(interval_ms)
                       ELSE Some(Max2(Val(interval_max_ms), interval_ms))
       ELSE UNCHANGED <<gap_sum, gap_count, sequential, random, interval_count,
                        interval_sum_ms, interval_min_ms, interval_max_ms>>
    /\ prev_ts' = Some(ts)
    /\ prev_sector' = Some(sector)
    /\ prev_size' = Some(size_sectors)
    /\ UNCHANGED <<pc_stream, results>>
    /\ StreamFrame

(* A quotient of two integers, kept exact.                                 *)
Ratio(n, d) == [num |-> n, den |-> d]

(* (sequential / (sequential + random) * 100) if (sequential + random) > 0  *)
(* else 0.0                                                                *)
SequentialPercent(seq, rnd) ==
    IF seq + rnd > 0 THEN Ratio(seq * 100, seq + rnd) ELSE Ratio(0, 1)

(* The dict stream_analyze returns.                                        *)
StreamResult ==
    [total_reads |-> total_reads,
     total_mb_read |-> Ratio(total_bytes, 1024 * 1024),
     sequential_reads |-> sequential,
     random_reads |-> random,
     sequential_percent |-> SequentialPercent(sequential, random),
     avg_gap_kb |-> IF gap_count # 0 THEN Ratio(gap_sum, gap_count * 2)
                    ELSE Ratio(0, 1),
     mean_interval_ms |->
         IF interval_count # 0 THEN Ratio(interval_sum_ms, interval_count)
         ELSE Ratio(0, 1),
     min_interval_ms |-> IF interval_min_ms # None THEN Val(interval_min_ms) ELSE 0,
     max_interval_ms |-> IF interval_max_ms # None THEN Val(interval_max_ms) ELSE 0]

(* Mutant: a single read is reported as no data too.                       *)
NoData_AtMostOne(n) == n <= 1

(* if total_reads == 0: return None *)
NoData(n) == n = 0

(* End of the stream: if total_reads == 0: return None, else the dict.     *)
StreamReturn ==
    /\ pc_stream = "loop"
    /\ pc_stream' = "returned"
    /\ results' = IF NoData(total_reads) THEN None ELSE Some(StreamResult)
    /\ UNCHANGED <<stream, StreamAccumulators>>
    /\ StreamFrame

StreamNext ==
    \/ \E line \in NextLines(stream) : StreamSkipShort(line)
    \/ \E line \in NextLines(stream) : StreamSkipNonRead(line)
    \/ \E line \in NextLines(stream) : StreamSkipValueError(line)
    \/ \E line \in NextLines(stream) : StreamCount(line)
    \/ StreamReturn

(***************************************************************************)
(*                          EXTENT MAPPER                                  *)
(*      disk-benchmarking/utils/analysis_tools.py get_gguf_sector_range    *)
(***************************************************************************)
MaxExtents == 3

SECTORS_PER_BLOCK == 8

(* A line of the listing: one that extent_pattern matches, with its two    *)
(* physical block numbers, or one it does not match (header, summary).     *)
ExtentLine(s, e) == [match |-> TRUE, start |-> s, end |-> e]

OtherLine == [match |-> FALSE, start |-> 0, end |-> 0]

BlockPoints == {0, 99, 100, 199, 200, 299, 300, 399}

(* A physical extent of the file: blocks start..end, end inclusive.        *)
ExtentPool == {x \in BlockPoints \X BlockPoints : x[1] <= x[2]}

(* The extents of one file share no block.                                 *)
DisjointFrom(x, lines) ==
    \A i \in DOMAIN lines :
        lines[i].match => (lines[i].end < x[1] \/ x[2] < lines[i].start)

NumExtentLines(lines) == Cardinality({i \in DOMAIN lines : lines[i].match})

(* filefrag -v prints a header, one line per extent, and a summary.        *)
ListingComplete(lines) == Len(lines) >= 2 /\ ~lines[Len(lines)].match

NextListingLines(lines) ==
    IF lines = <<>> THEN {OtherLine}
    ELSE IF ListingComplete(lines) THEN {}
    ELSE {OtherLine} \cup
         {ExtentLine(x[1], x[2]) :
             x \in {y \in ExtentPool : /\ NumExtentLines(lines) < MaxExtents
                                       /\ DisjointFrom(y, lines)}}

(* list.sort(key=lambda x: x[0]): stable, ascending by start block.        *)
RECURSIVE InsertByStart(_, _)
InsertByStart(x, sorted) ==
    IF sorted = <<>> THEN <<x>>
    ELSE IF x[1] < Head(sorted)[1] THEN <<x>> \o sorted
         ELSE <<Head(sorted)>> \o InsertByStart(x, Tail(sorted))

(* Mutant: the list is merged in the order filefrag printed it.            *)
SortByStart_Unsorted(xs) == xs

RECURSIVE SortByStart(_)
SortByStart(xs) ==
    IF xs = <<>> THEN <<>>
    ELSE InsertByStart(xs[Len(xs)], SortByStart(SubSeq(xs, 1, Len(xs) - 1)))

(* if start == current_end + 1 *)
Adjacent(start, cur_end) == start = cur_end + 1

(* max_sector = (max_block + 1) * 8: filefrag's end block is inclusive.    *)
MinSector(min_block) == min_block * SECTORS_PER_BLOCK

(* Mutant: the inclusive end block is taken as the exclusive bound.        *)
MaxSector_NoPlusOne(max_block) == max_block * SECTORS_PER_BLOCK

MaxSector(max_block) == (max_block + 1) * SECTORS_PER_BLOCK

ExtentInit ==
    /\ filefrag_out = <<>>
    /\ pc_extent = "parse"
    /\ extents = <<>>
    /\ ext_i = 0
    /\ current_start = 0
    /\ current_end = 0
    /\ merged_extents = <<>>
    /\ sector_range = None

(* for line in result.split('\n'): a line the pattern matches              *)
ExtentLineMatch(line) ==
    /\ pc_extent = "parse"
    /\ line.match
    /\ filefrag_out' = Append(filefrag_out, line)
    /\ extents' = Append(extents, <<line.start, line.end>>)
    /\ UNCHANGED <<pc_extent, ext_i, current_start, current_end, merged_extents,
                   sector_range>>
    /\ ExtentFrame

(* a line the pattern does not match is ignored                            *)
ExtentLineOther(line) ==
    /\ pc_extent = "parse"
    /\ ~line.match
    /\ filefrag_out' = Append(filefrag_out, line)
    /\ UNCHANGED <<pc_extent, extents, ext_i, current_start, current_end,
                   merged_extents, sector_range>>
    /\ ExtentFrame

(* Mutant: a single extent is refused as well.                             *)
NoExtents_AtMostOne(xs) == Len(xs) <= 1

(* if not extents *)
NoExtents(xs) == xs = <<>>

(* No line matched: raise ValueError.                                      *)
ExtentRaise ==
    /\ pc_extent = "parse"
    /\ ListingComplete(filefrag_out)
    /\ NoExtents(extents)
    /\ pc_extent' = "ValueError"
    /\ UNCHANGED <<filefrag_out, extents, ext_i, current_start, current_end,
                   merged_extents, sector_range>>
    /\ ExtentFrame

(* The extents are sorted; the merge starts at extents[0].                 *)
ExtentSort ==
    /\ pc_extent = "parse"
    /\ ListingComplete(filefrag_out)
    /\ ~NoExtents(extents)
    /\ extents' = SortByStart(extents)
    /\ current_start' = extents'[1][1]
    /\ current_end' = extents'[1][2]
    /\ merged_extents' = <<>>
    /\ ext_i' = 2
    /\ pc_extent' = "merge"
    /\ UNCHANGED <<filefrag_out, sector_range>>
    /\ ExtentFrame

(* An adjacent extent extends the current one.                             *)
ExtentMergeAdjacent ==
    /\ pc_extent = "merge"
    /\ ext_i <= Len(extents)
    /\ Adjacent(extents[ext_i][1], current_end)
    /\ current_end' = extents[ext_i][2]
    /\ ext_i' = ext_i + 1
    /\ UNCHANGED <<filefrag_out, pc_extent, extents, current_start,
                   merged_extents, sector_range>>
    /\ ExtentFrame

(* A gap: the current extent is saved and a new one starts.                *)
ExtentMergeGap ==
    /\ pc_extent = "merge"
    /\ ext_i <= Len(extents)
    /\ ~Adjacent(extents[ext_i][1], current_end)
    /\ merged_extents' = Append(merged_extents, <<current_start, current_end>>)
    /\ current_start' = extents[ext_i][1]
    /\ current_end' = extents[ext_i][2]
    /\ ext_i' = ext_i + 1
    /\ UNCHANGED <<filefrag_out, pc_extent, extents, sector_range>>
    /\ ExtentFrame

(* After the loop: the last extent is saved and the range is returned.     *)
ExtentReturn ==
    /\ pc_extent = "merge"
    /\ ext_i > Len(extents)
    /\ merged_extents' = Append(merged_extents, <<current_start, current_end>>)
    /\ LET min_block == merged_extents'[1][1]
           max_block == merged_extents'[Len(merged_extents')][2]
           num_extents == Len(merged_extents')
       IN  sector_range' = Some(<<MinSector(min_block), MaxSector(max_block),
                                  num_extents>>)
    /\ pc_extent' = "returned"
    /\ UNCHANGED <<filefrag_out, extents, ext_i, current_start, current_end>>
    /\ ExtentFrame

ExtentNext ==
    \/ \E line \in NextListingLines(filefrag_out) : ExtentLineMatch(line)
    \/ \E line \in NextListingLines(filefrag_out) : ExtentLineOther(line)
    \/ ExtentRaise
    \/ ExtentSort
    \/ ExtentMergeAdjacent
    \/ ExtentMergeGap
    \/ ExtentReturn

(***************************************************************************)
(*                      BATCH ANALYTICS ENGINE                             *)
(*      disk-benchmarking/utils/analysis_tools.py analyze_with_duckdb      *)
(***************************************************************************)
MaxRows == 3

(* A row of the CSV written by blktrace_to_csv: size_bytes is              *)
(* int(size_sectors) * 512.  Timestamps are held in milliseconds.          *)
TraceRow(ts, pid, action, rwbs, sector, size_sectors) ==
    [timestamp |-> ts, pid |-> pid, action |-> action, rwbs |-> rwbs,
     sector |-> sector, size_sectors |-> size_sectors,
     size_bytes |-> size_sectors * 512]

WorkloadPid == 7

BatchSectors == {0, 2, 4, 6, 8}

RowsAt(ts) ==
    {TraceRow(ts, WorkloadPid, "D", <<"R">>, s, 2) : s \in BatchSectors}
    \cup {TraceRow(ts, WorkloadPid, "D", <<"R">>, 0, 4),
          TraceRow(ts, WorkloadPid, "D", <<"R">>, 12, 2),
          TraceRow(ts, WorkloadPid, "Q", <<"R">>, 2, 2),
          TraceRow(ts, WorkloadPid, "D", <<"W", "S">>, 2, 2),
          TraceRow(ts, WorkloadPid + 2, "D", <<"R">>, 2, 2)}

(* The capture is time ordered, one row per timestamp.                     *)
BatchTimes == {600 * k : k \in 0..MaxRows}

(* The rows that can follow the rows loaded so far.                        *)
NextRows(rows) ==
    UNION {RowsAt(ts) :
             ts \in {t \in BatchTimes :
                        rows = <<>> \/ rows[Len(rows)].timestamp < t}}

(* The thresholds the caller passes: settings gap_small_sectors and        *)
(* gap_medium_sectors, which nothing validates.                            *)
GapThresholds == {<<4, 6>>, <<6, 4>>, <<0, 4>>}

(* rwbs LIKE '%R%' *)
RwbsLikeR(rwbs) == \E i \in DOMAIN rwbs : rwbs[i] = "R"

(* The WHERE clause of CREATE TABLE reads.                                 *)
InReads(row, pid, start_sector, end_sector) ==
    /\ row.action = "D"
    /\ RwbsLikeR(row.rwbs)
    /\ row.pid = pid
    /\ row.sector >= start_sector
    /\ row.sector <= end_sector

(* ORDER BY timestamp *)
RECURSIVE InsertByTimestamp(_, _)
InsertByTimestamp(x, sorted) ==
    IF sorted = <<>> THEN <<x>>
    ELSE IF x.timestamp < Head(sorted).timestamp THEN <<x>> \o sorted
         ELSE <<Head(sorted)>> \o InsertByTimestamp(x, Tail(sorted))

RECURSIVE OrderByTimestamp(_)
OrderByTimestamp(rows) ==
    IF rows = <<>> THEN <<>>
    ELSE InsertByTimestamp(rows[Len(rows)],
                           OrderByTimestamp(SubSeq(rows, 1, Len(rows) - 1)))

RECURSIVE SelectRows(_, _, _, _)
SelectRows(rows, pid, start_sector, end_sector) ==
    IF rows = <<>> THEN <<>>
    ELSE LET rest == SelectRows(Tail(rows), pid, start_sector, end_sector)
         IN  IF InReads(Head(rows), pid, start_sector, end_sector)
             THEN <<Head(rows)>> \o rest ELSE rest

(* SELECT SUM(size_bytes) FROM reads *)
RECURSIVE SumSizeBytes(_)
SumSizeBytes(rows) ==
    IF rows = <<>> THEN 0 ELSE Head(rows).size_bytes + SumSizeBytes(Tail(rows))

(* generate_series(sector, sector + size_sectors - 1) *)
(* Mutant: the series runs one sector past the end of the read.            *)
SectorSeries_Inclusive(row) == row.sector .. (row.sector + row.size_sectors)

SectorSeries(row) == row.sector .. (row.sector + row.size_sectors - 1)

(* SELECT COUNT(DISTINCT sector_num) FROM expanded_sectors *)
UniqueSectors(rows) == Cardinality(UNION {SectorSeries(rows[i]) : i \in DOMAIN rows})

(* Table gaps: sector - (prev_sector + prev_size) by LAG over the ordered  *)
(* reads, WHERE prev_sector IS NOT NULL.                                   *)
GapsTable(rows) ==
    [k \in 1..(Len(rows) - 1) |->
        rows[k + 1].sector - (rows[k].sector + rows[k].size_sectors)]

(* The five CASE sums of the gap statistics.                               *)
IsPerfect(gap) == gap = 0

IsSmallGap(gap, small) == gap > 0 /\ gap < small

(* Mutant: a gap equal to gap_small falls between the buckets.             *)
IsMediumGap_Exclusive(gap, small, medium) == gap > small /\ gap < medium

IsMediumGap(gap, small, medium) == gap >= small /\ gap < medium

IsLargeGap(gap, medium) == gap >= medium

IsBackward(gap) == gap < 0

CountPerfect(gaps) == Cardinality({k \in DOMAIN gaps : IsPerfect(gaps[k])})

CountSmall(gaps, small) == Cardinality({k \in DOMAIN gaps : IsSmallGap(gaps[k], small)})

CountMedium(gaps, small, medium) ==
    Cardinality({k \in DOMAIN gaps : IsMediumGap(gaps[k], small, medium)})

CountLarge(gaps, medium) == Cardinality({k \in DOMAIN gaps : IsLargeGap(gaps[k], medium)})

CountBackward(gaps) == Cardinality({k \in DOMAIN gaps : IsBackward(gaps[k])})

(* total_gaps = gap_stats[5] or 1 *)
TotalGaps(gaps) == IF Len(gaps) # 0 THEN Len(gaps) ELSE 1

GapDistribution(gaps, small, medium) ==
    [perfect_sequential |-> CountPerfect(gaps),
     small_gaps |-> CountSmall(gaps, small),
     medium_gaps |-> CountMedium(gaps, small, medium),
     large_gaps |-> CountLarge(gaps, medium),
     backward_seeks |-> CountBackward(gaps),
     total |-> TotalGaps(gaps)]

(* CAST(timestamp AS INTEGER): DuckDB rounds a DOUBLE to the nearest       *)
(* integer, a half to the even one.                                        *)
TimeBucket(ts) ==
    LET q == ts \div 1000
        r == ts % 1000
    IN  IF r < 500 THEN q
        ELSE IF r > 500 THEN q + 1
        ELSE IF q % 2 = 0 THEN q ELSE q + 1

(* GROUP BY time_bucket ORDER BY time_bucket: (bucket, operations, bytes)  *)
RECURSIVE SortedBuckets(_)
SortedBuckets(bs) ==
    IF bs = {} THEN <<>>
    ELSE LET b == CHOOSE x \in bs : \A y \in bs : x <= y
         IN  <<b>> \o SortedBuckets(bs \ {b})

RowsInBucket(rows, b) == {i \in DOMAIN rows : TimeBucket(rows[i].timestamp) = b}

RECURSIVE SumBytesAt(_, _)
SumBytesAt(rows, idx) ==
    IF idx = {} THEN 0
    ELSE LET i == CHOOSE x \in idx : TRUE
         IN  rows[i].size_bytes + SumBytesAt(rows, idx \ {i})

Bandwidth(rows) ==
    LET bs == SortedBuckets({TimeBucket(rows[i].timestamp) : i \in DOMAIN rows})
    IN  [w \in DOMAIN bs |->
            [time_bucket |-> bs[w],
             operations |-> Cardinality(RowsInBucket(rows, bs[w])),
             bytes_read |-> SumBytesAt(rows, RowsInBucket(rows, bs[w]))]]

(* The dict written to analysis.json (the counts; the MB, GB and percent   *)
(* fields are these divided by constants).                                 *)
AnalysisDocument(rows, small, medium) ==
    [total_reads |-> Len(rows),
     total_bytes_read |-> SumSizeBytes(rows),
     unique_sectors |-> UniqueSectors(rows),
     unique_bytes |-> UniqueSectors(rows) * 512,
     gap_distribution |-> GapDistribution(GapsTable(rows), small, medium),
     bandwidth |-> Bandwidth(rows)]

BatchInit ==
    /\ trace = <<>>
    /\ llama_pid = WorkloadPid
    /\ \E g \in GapThresholds : gap_small = g[1] /\ gap_medium = g[2]
    /\ gguf_start_sector = MinSector(0)
    /\ gguf_end_sector = MaxSector(0)
    /\ pc_batch = "load"
    /\ reads = <<>>
    /\ analysis = None

BatchInputs == <<trace, llama_pid, gap_small, gap_medium, gguf_start_sector,
                 gguf_end_sector>>

(* CREATE TABLE trace AS SELECT * FROM read_csv(...): one more row.        *)
BatchLoadRow(row) ==
    /\ pc_batch = "load"
    /\ Len(trace) < MaxRows
    /\ trace' = Append(trace, row)
    /\ UNCHANGED <<llama_pid, gap_small, gap_medium, gguf_start_sector,
                   gguf_end_sector, pc_batch, reads, analysis>>
    /\ BatchFrame

(* llama_pid.txt exists: CREATE TABLE reads.                               *)
BatchFilter ==
    /\ pc_batch = "load"
    /\ reads' = OrderByTimestamp(SelectRows(trace, llama_pid, gguf_start_sector,
                                            gguf_end_sector))
    /\ pc_batch' = "filtered"
    /\ UNCHANGED <<BatchInputs, analysis>>
    /\ BatchFrame

(* llama_pid.txt does not exist: table reads is never created and the      *)
(* row count query on it raises.                                           *)
BatchNoPidFile ==
    /\ pc_batch = "load"
    /\ pc_batch' = "CatalogException"
    /\ UNCHANGED <<BatchInputs, reads, analysis>>
    /\ BatchFrame

(* if total_rows == 0: log a warning, close, return                        *)
BatchNoReads ==
    /\ pc_batch = "filtered"
    /\ Len(reads) = 0
    /\ pc_batch' = "returned"
    /\ UNCHANGED <<BatchInputs, reads, analysis>>
    /\ BatchFrame

(* The four metrics are computed and analysis.json is written.             *)
BatchAnalyze ==
    /\ pc_batch = "filtered"
    /\ Len(reads) # 0
    /\ analysis' = Some(AnalysisDocument(reads, gap_small, gap_medium))
    /\ pc_batch' = "written"
    /\ UNCHANGED <<BatchInputs, reads>>
    /\ BatchFrame

BatchNext ==
    \/ \E row \in NextRows(trace) : BatchLoadRow(row)
    \/ BatchFilter
    \/ BatchNoPidFile
    \/ BatchNoReads
    \/ BatchAnalyze

(***************************************************************************)
(*                     BUFFER LIFECYCLE REPLAY                             *)
(*              tensor-tracing/tools/parse_buffer_stats.py                 *)
(***************************************************************************)
MaxEvents == 3

(* One decoded JSON line.  size is the value of key 'size', None when the  *)
(* key is absent, and so for 'layer'.  The name, backend and usage keys    *)
(* are copied into the registry unchanged and are left out.  missing is    *)
(* the set of the keys 'event', 'timestamp_ms', 'buffer_id' that do not    *)
(* occur in the object.                                                    *)
AllocEventLayer(ts, id, size, layer) ==
    [event |-> "alloc", timestamp_ms |-> ts, buffer_id |-> id, size |-> size,
     layer |-> layer, missing |-> {}]

AllocEvent(ts, id, size) == AllocEventLayer(ts, id, size, Some(2))

DeallocEvent(ts, id) ==
    [event |-> "dealloc", timestamp_ms |-> ts, buffer_id |-> id, size |-> None,
     layer |-> None, missing |-> {}]

(* An object in which the keys of absent do not occur.  event.get('event') *)
(* of an object without the key is no event type, held as "".              *)
PartialEvent(kind, ts, id, absent) ==
    [event |-> kind, timestamp_ms |-> ts, buffer_id |-> id, size |-> None,
     layer |-> None, missing |-> absent]

BufferIds == {1, 2}

BufferSizes == {50, 100}

BufferTimes == {10, 20}

BufferEvents ==
    {AllocEvent(ts, id, Some(sz)) : ts \in BufferTimes, id \in BufferIds, sz \in BufferSizes}
    \cup {AllocEvent(ts, 1, None) : ts \in BufferTimes}
    \cup {AllocEventLayer(10, 2, Some(50), Some(65535)),
          AllocEventLayer(10, 2, Some(50), None)}
    \cup {DeallocEvent(ts, id) : ts \in BufferTimes, id \in BufferIds}
    \cup {PartialEvent("alloc", 0, 1, {"timestamp_ms"}),
          PartialEvent("", 20, 1, {"event"}),
          PartialEvent("", 20, 0, {"event", "buffer_id"})}

(* key in event *)
HasKey(event, key) == key \notin event.missing

(* event.get('size', 0) *)
SizeOf(event) == IF event.size = None THEN 0 ELSE Val(event.size)

(* Python dict operations on a list of (key, value) items.                 *)
DictHas(d, k) == \E i \in DOMAIN d : d[i][1] = k

DictIndex(d, k) == CHOOSE i \in DOMAIN d : d[i][1] = k

DictGet(d, k) == d[DictIndex(d, k)][2]

DictSet(d, k, v) ==
    IF DictHas(d, k) THEN [d EXCEPT ![DictIndex(d, k)] = <<k, v>>]
    ELSE Append(d, <<k, v>>)

DictPop(d, k) ==
    LET i == DictIndex(d, k)
    IN  SubSeq(d, 1, i - 1) \o SubSeq(d, i + 1, Len(d))

(* The registry entry of an alloc event.                                   *)
RegistryEntry(event) ==
    [id |-> event.buffer_id,
     size |-> SizeOf(event),
     layer |-> IF event.layer = None THEN 65535 ELSE Val(event.layer),
     alloc_time_ms |-> event.timestamp_ms,
     dealloc_time_ms |-> None]

(* build_buffer_registry subscripts event['buffer_id'] and                 *)
(* event['timestamp_ms'] of every alloc event: KeyError when one is absent. *)
RegistryRaises(evs) ==
    \E i \in DOMAIN evs :
        /\ evs[i].event = "alloc"
        /\ ~(HasKey(evs[i], "buffer_id") /\ HasKey(evs[i], "timestamp_ms"))

(* compute_occupancy_timeline subscripts event['timestamp_ms'] and         *)
(* event['buffer_id'] of every event.                                      *)
ReplayRaises(event) ==
    ~(HasKey(event, "timestamp_ms") /\ HasKey(event, "buffer_id"))

RECURSIVE BuildBufferRegistry(_, _)
BuildBufferRegistry(evs, reg) ==
    IF evs = <<>> THEN reg
    ELSE BuildBufferRegistry(
             Tail(evs),
             IF Head(evs).event = "alloc"
             THEN DictSet(reg, Head(evs).buffer_id, RegistryEntry(Head(evs)))
             ELSE reg)

(* Mutant: an id that is already active keeps its first size.              *)
Activate_KeepFirst(active, id, size) ==
    IF DictHas(active, id) THEN active ELSE DictSet(active, id, size)

(* active_buffers[buffer_id] = size *)
Activate(active, id, size) == DictSet(active, id, size)

(* cumulative_size += size *)
AddSize(cumulative, size) == cumulative + size

(* Mutant: the size of a deallocated buffer stays in the cumulative size.  *)
SubtractSize_Kept(cumulative, size) == cumulative

(* cumulative_size -= size *)
SubtractSize(cumulative, size) == cumulative - size

(* registry[buffer_id]['dealloc_time_ms'] = timestamp_ms *)
SetDeallocTime(reg, id, ts) ==
    IF DictHas(reg, id)
    THEN DictSet(reg, id, [DictGet(reg, id) EXCEPT !.dealloc_time_ms = Some(ts)])
    ELSE reg

TimelineEntry(event, kind, size, cumulative, active) ==
    [timestamp_ms |-> event.timestamp_ms,
     event |-> kind,
     buffer_id |-> event.buffer_id,
     size |-> size,
     cumulative_size |-> cumulative,
     num_active_buffers |-> Len(active)]

(* Mutant: the final occupancy instead of the peak.                        *)
MaxCumulative_Last(tl) == tl[Len(tl)].cumulative_size

RECURSIVE MaxCumulative(_)
MaxCumulative(tl) ==
    IF Len(tl) = 1 THEN tl[1].cumulative_size
    ELSE Max2(Head(tl).cumulative_size, MaxCumulative(Tail(tl)))

ComputeMetadata(evs, reg, tl) ==
    IF tl = <<>>
    THEN [total_events |-> 0, total_buffers |-> 0, peak_occupancy_bytes |-> 0,
          duration_ms |-> 0]
    ELSE [total_events |-> Len(evs),
          total_buffers |-> Len(reg),
          peak_occupancy_bytes |-> MaxCumulative(tl),
          duration_ms |-> tl[Len(tl)].timestamp_ms - tl[1].timestamp_ms]

BufferInit ==
    /\ events = <<>>
    /\ line_num = 0
    /\ pc_buffer = "parse"
    /\ registry = <<>>
    /\ ev_i = 0
    /\ timeline = <<>>
    /\ active_buffers = <<>>
    /\ cumulative_size = 0
    /\ occupancy = <<>>
    /\ metadata = None

(* parse_jsonl: json.loads decodes the line and the event is appended.     *)
ParseLine(event) ==
    /\ pc_buffer = "parse"
    /\ line_num < MaxEvents
    /\ line_num' = line_num + 1
    /\ events' = Append(events, event)
    /\ UNCHANGED <<pc_buffer, registry, ev_i, timeline, active_buffers,
                   cumulative_size, occupancy, metadata>>
    /\ BufferFrame

(* parse_jsonl: a blank line, or a line json.loads rejects, is passed over. *)
ParseSkipLine ==
    /\ pc_buffer = "parse"
    /\ line_num < MaxEvents
    /\ line_num' = line_num + 1
    /\ UNCHANGED <<events, pc_buffer, registry, ev_i, timeline, active_buffers,
                   cumulative_size, occupancy, metadata>>
    /\ BufferFrame

(* generate_output: registry = build_buffer_registry(events), then the     *)
(* replay starts with an empty timeline.                                   *)
BufferRegistry ==
    /\ pc_buffer = "parse"
    /\ ~RegistryRaises(events)
    /\ registry' = BuildBufferRegistry(events, <<>>)
    /\ ev_i' = 1
    /\ pc_buffer' = "replay"
    /\ UNCHANGED <<events, line_num, timeline, active_buffers, cumulative_size, occupancy,
                   metadata>>
    /\ BufferFrame

(* build_buffer_registry raises KeyError and the run ends.                 *)
BufferRegistryKeyError ==
    /\ pc_buffer = "parse"
    /\ RegistryRaises(events)
    /\ pc_buffer' = "KeyError"
    /\ UNCHANGED <<events, line_num, registry, ev_i, timeline, active_buffers,
                   cumulative_size, occupancy, metadata>>
    /\ BufferFrame

BufferReplaying == pc_buffer = "replay" /\ ev_i <= Len(events)

(* The subscripts at the top of the loop body raise KeyError.              *)
ReplayKeyError ==
    /\ BufferReplaying
    /\ ReplayRaises(events[ev_i])
    /\ pc_buffer' = "KeyError"
    /\ UNCHANGED <<events, line_num, registry, ev_i, timeline, active_buffers,
                   cumulative_size, occupancy, metadata>>
    /\ BufferFrame

(* An event type that is neither 'alloc' nor 'dealloc': no branch is taken. *)
ReplayOther ==
    /\ BufferReplaying
    /\ ~ReplayRaises(events[ev_i])
    /\ events[ev_i].event \notin {"alloc", "dealloc"}
    /\ occupancy' = Append(occupancy, cumulative_size)
    /\ ev_i' = ev_i + 1
    /\ UNCHANGED <<events, line_num, pc_buffer, registry, timeline, active_buffers,
                   cumulative_size, metadata>>
    /\ BufferFrame

ReplayAlloc ==
    /\ BufferReplaying
    /\ ~ReplayRaises(events[ev_i])
    /\ events[ev_i].event = "alloc"
    /\ LET event == events[ev_i]
           size == SizeOf(event)
       IN  /\ active_buffers' = Activate(active_buffers, event.buffer_id, size)
           /\ cumulative_size' = AddSize(cumulative_size, size)
           /\ timeline' = Append(timeline,
                  TimelineEntry(event, "alloc", size, cumulative_size',
                                active_buffers'))
    /\ occupancy' = Append(occupancy, cumulative_size')
    /\ ev_i' = ev_i + 1
    /\ UNCHANGED <<events, line_num, pc_buffer, registry, metadata>>
    /\ BufferFrame

ReplayDealloc ==
    /\ BufferReplaying
    /\ ~ReplayRaises(events[ev_i])
    /\ events[ev_i].event = "dealloc"
    /\ DictHas(active_buffers, events[ev_i].buffer_id)
    /\ LET event == events[ev_i]
           size == DictGet(active_buffers, event.buffer_id)
       IN  /\ active_buffers' = DictPop(active_buffers, event.buffer_id)
           /\ cumulative_size' = SubtractSize(cumulative_size, size)
           /\ registry' = SetDeallocTime(registry, event.buffer_id,
                                         event.timestamp_ms)
           /\ timeline' = Append(timeline,
                  TimelineEntry(event, "dealloc", size, cumulative_size',
                                active_buffers'))
    /\ occupancy' = Append(occupancy, cumulative_size')
    /\ ev_i' = ev_i + 1
    /\ UNCHANGED <<events, line_num, pc_buffer, metadata>>
    /\ BufferFrame

(* Mutant: active_buffers.pop(buffer_id) without the membership test       *)
(* raises KeyError and the replay ends.                                    *)
ReplayDeallocUnknown_Raises ==
    /\ BufferReplaying
    /\ ~ReplayRaises(events[ev_i])
    /\ events[ev_i].event = "dealloc"
    /\ ~DictHas(active_buffers, events[ev_i].buffer_id)
    /\ pc_buffer' = "KeyError"
    /\ UNCHANGED <<events, line_num, registry, ev_i, timeline, active_buffers,
                   cumulative_size, occupancy, metadata>>
    /\ BufferFrame

(* Warning: Dealloc for unknown buffer; the loop goes on.                  *)
ReplayDeallocUnknown ==
    /\ BufferReplaying
    /\ ~ReplayRaises(events[ev_i])
    /\ events[ev_i].event = "dealloc"
    /\ ~DictHas(active_buffers, events[ev_i].buffer_id)
    /\ occupancy' = Append(occupancy, cumulative_size)
    /\ ev_i' = ev_i + 1
    /\ UNCHANGED <<events, line_num, pc_buffer, registry, timeline, active_buffers,
                   cumulative_size, metadata>>
    /\ BufferFrame

(* The timeline is returned and compute_metadata runs on it.               *)
BufferMetadata ==
    /\ pc_buffer = "replay"
    /\ ev_i > Len(events)
    /\ metadata' = Some(ComputeMetadata(events, registry, timeline))
    /\ pc_buffer' = "done"
    /\ UNCHANGED <<events, line_num, registry, ev_i, timeline, active_buffers,
                   cumulative_size, occupancy>>
    /\ BufferFrame

BufferNext ==
    \/ \E event \in BufferEvents : ParseLine(event)
    \/ ParseSkipLine
    \/ BufferRegistry
    \/ BufferRegistryKeyError
    \/ ReplayKeyError
    \/ ReplayAlloc
    \/ ReplayDealloc
    \/ ReplayDeallocUnknown
    \/ ReplayOther
    \/ BufferMetadata

(***************************************************************************)
(*                 TENSOR TRACE DECODER AND AGGREGATOR                     *)
(*                  tensor-tracing/tools/parse_trace.py                    *)
(***************************************************************************)
MaxRecords == 3

MaxExports == 2

ENTRY_SIZE == 1024

LAYER_NONE == 65535

(* 0xFFFFFFFF, the all-ones 32-bit pattern, held as its signed value.       *)
TENSOR_IDX_NONE == -1

SOURCE_SLOTS == 4

EXPERT_SLOTS == 16

(* One SourceTensorInfo slot as struct.unpack_from(SOURCE_FORMAT) yields   *)
(* it.  tensor_ptr and size_bytes are copied unchanged and are left out.   *)
RawSource(name, layer, mem, prov, idx) ==
    [name |-> name, layer_id |-> layer, memory_source |-> mem,
     disk_offset_or_buffer_id |-> prov, tensor_idx |-> idx]

(* The four source slots of a record.  Slots at or beyond num_sources hold *)
(* whatever the writer left there.                                         *)
RawSlots ==
    <<RawSource("blk.0.attn_q.weight", 0, 0, 4096, 7),
      RawSource("cache_k", LAYER_NONE, 1, 12, TENSOR_IDX_NONE),
      RawSource("stale-2", 5, 0, 8192, 9),
      RawSource("stale-3", LAYER_NONE, 2, 13, TENSOR_IDX_NONE)>>

(* The sixteen int32 expert id slots of a record.                          *)
RawExperts == [i \in 1..EXPERT_SLOTS |-> 40 + i]

(* One chunk returned by f.read(ENTRY_SIZE): nbytes bytes, and for a full  *)
(* chunk the unpacked fields.  thread_id, operation_type, phase and        *)
(* dst_name are copied or renamed field by field and are left out.         *)
Chunk(nbytes, ts, tok, layer, nsrc, nexp) ==
    [nbytes |-> nbytes, timestamp_ns |-> ts, token_id |-> tok,
     layer_id |-> layer, num_sources |-> nsrc, sources |-> RawSlots,
     expert_ids_raw |-> RawExperts, num_experts |-> nexp]

TraceTimes == {1000, 2000, 2400}

TokenIds == {0, 1}

(* The chunks a trace file can hold: records of two tokens at three times, *)
(* a record with the sentinel layer and a sentinel source, records whose   *)
(* counts are 0, the capacity, and above the capacity (the count fields    *)
(* are bytes), an unused slot (timestamp 0), and a last, short read.       *)
TraceChunks ==
    {Chunk(ENTRY_SIZE, ts, tok, 3, 1, 0) : ts \in TraceTimes, tok \in TokenIds}
    \cup {Chunk(ENTRY_SIZE, 2000, 0, LAYER_NONE, 2, 0),
          Chunk(ENTRY_SIZE, 2400, 1, 3, 0, 2),
          Chunk(ENTRY_SIZE, 2400, 1, 3, 4, 16),
          Chunk(ENTRY_SIZE, 2400, 1, 3, 5, 17),
          Chunk(ENTRY_SIZE, 0, 1, 3, 1, 0),
          Chunk(512, 0, 0, 0, 0, 0),
          Chunk(0, 0, 0, 0, 0, 0)}

(* parse_source *)
ParseSource(raw) ==
    [name |-> raw.name,
     layer_id |-> IF raw.layer_id # LAYER_NONE THEN Some(raw.layer_id) ELSE None,
     memory_source |-> IF raw.memory_source = 0 THEN "DISK" ELSE "BUFFER",
     disk_offset_or_buffer_id |-> raw.disk_offset_or_buffer_id,
     tensor_idx |-> IF raw.tensor_idx # TENSOR_IDX_NONE THEN Some(raw.tensor_idx)
                    ELSE None]

(* for i in range(4): if src and i < num_sources: sources.append(src)      *)
RECURSIVE ParseSources(_, _, _)
ParseSources(slots, num_sources, i) ==
    IF i >= SOURCE_SLOTS THEN <<>>
    ELSE (IF i < num_sources THEN <<ParseSource(slots[i + 1])>> ELSE <<>>)
         \o ParseSources(slots, num_sources, i + 1)

SourceSlice(slots, num_sources) == ParseSources(slots, num_sources, 0)

(* list(expert_ids_raw[:num_experts]) if num_experts > 0 else []           *)
ExpertSlice(raw, num_experts) ==
    IF num_experts > 0 THEN SubSeq(raw, 1, Min2(num_experts, Len(raw))) ELSE <<>>

(* Mutant: an unused slot is decoded like any other record.                *)
ParsesToNone_ShortOnly(chunk) == chunk.nbytes < ENTRY_SIZE

(* parse_entry returns None: data shorter than a record, or timestamp 0.   *)
ParsesToNone(chunk) == chunk.nbytes < ENTRY_SIZE \/ chunk.timestamp_ns = 0

(* The dict parse_entry returns for a record.                              *)
ParseEntry(chunk, n) ==
    [entry_num |-> n,
     timestamp_ns |-> chunk.timestamp_ns,
     token_id |-> chunk.token_id,
     layer_id |-> IF chunk.layer_id # LAYER_NONE THEN Some(chunk.layer_id) ELSE None,
     num_sources |-> chunk.num_sources,
     sources |-> SourceSlice(chunk.sources, chunk.num_sources),
     expert_ids |-> ExpertSlice(chunk.expert_ids_raw, chunk.num_experts),
     num_experts |-> chunk.num_experts]

(* entries_by_token[token_id]: the entries of one token, in list order.    *)
EntriesOfToken(es, tok) == SelectSeq(es, LAMBDA e : e.token_id = tok)

(* sorted(entries_by_token.keys()) *)
RECURSIVE SortedKeys(_)
SortedKeys(S) ==
    IF S = {} THEN <<>>
    ELSE LET m == CHOOSE x \in S : \A y \in S : x <= y
         IN  <<m>> \o SortedKeys(S \ {m})

TokenKeys(es) == SortedKeys({es[i].token_id : i \in DOMAIN es})

(* Mutant: the timestamp of the first entry of the token.                  *)
MinTimestamp_First(tes) == tes[1].timestamp_ns

(* min(e['timestamp_ns'] for e in token_entries) *)
MinTimestamp(tes) ==
    LET T == {tes[i].timestamp_ns : i \in DOMAIN tes}
    IN  CHOOSE x \in T : \A y \in T : x <= y

MaxTimestamp(tes) ==
    LET T == {tes[i].timestamp_ns : i \in DOMAIN tes}
    IN  CHOOSE x \in T : \A y \in T : x >= y

(* round(ns / 1_000_000, 3): milliseconds to three decimals, held as the   *)
(* number of thousandths; a tie goes to the even neighbour.                *)
RoundMs3(ns) ==
    LET q == ns \div 1000
        r == ns % 1000
    IN  IF r > 500 \/ (r = 500 /\ q % 2 = 1) THEN q + 1 ELSE q

(* formatted_src; tensor_idx is not exported.                              *)
FormatSource(src) ==
    [name |-> src.name,
     layer_id |-> src.layer_id,
     memory_source |-> src.memory_source,
     disk_offset |-> IF src.memory_source = "DISK"
                     THEN Some(src.disk_offset_or_buffer_id) ELSE None,
     buffer_id |-> IF src.memory_source = "DISK"
                   THEN None ELSE Some(src.disk_offset_or_buffer_id)]

FormatSources(srcs) == [k \in DOMAIN srcs |-> FormatSource(srcs[k])]

(* formatted_entry for the entry at position i (from 0) of its token.      *)
FormatEntry(i, entry, timestamp_start) ==
    [entry_id |-> i,
     timestamp_ns |-> entry.timestamp_ns,
     timestamp_relative_ms |-> RoundMs3(entry.timestamp_ns - timestamp_start),
     token_id |-> entry.token_id,
     layer_id |-> entry.layer_id,
     num_sources |-> entry.num_sources,
     sources |-> FormatSources(entry.sources),
     expert_ids |-> entry.expert_ids,
     num_experts |-> entry.num_experts]

(* token_json *)
TokenDocument(tok, tes) ==
    LET timestamp_start == MinTimestamp(tes)
        timestamp_end == MaxTimestamp(tes)
    IN  [token_id |-> tok,
         metadata |-> [total_entries |-> Len(tes),
                       duration_ms |-> RoundMs3(timestamp_end - timestamp_start),
                       timestamp_start_ns |-> timestamp_start],
         entries |-> [k \in DOMAIN tes |->
                          FormatEntry(k - 1, tes[k], timestamp_start)]]

(* Mutant: the file is opened for appending.                               *)
WriteFile_Append(files, name, doc) ==
    IF DictHas(files, name)
    THEN DictSet(files, name, Append(DictGet(files, name), doc))
    ELSE DictSet(files, name, <<doc>>)

(* open(output_file, 'w'); json.dump(token_json, f): the file holds the    *)
(* one document, whatever it held before.                                  *)
WriteFile(files, name, doc) == DictSet(files, name, <<doc>>)

(* The loop over the sorted token ids.                                     *)
RECURSIVE ExportTokens(_, _, _)
ExportTokens(files, keys, es) ==
    IF keys = <<>> THEN files
    ELSE ExportTokens(WriteFile(files, keys[1],
                                TokenDocument(keys[1], EntriesOfToken(es, keys[1]))),
                      Tail(keys), es)

(* export_to_json_per_token(entries, output_dir) on a directory `files`.   *)
ExportToJsonPerToken(es, files) == ExportTokens(files, TokenKeys(es), es)

TraceInit ==
    /\ trace_file = <<>>
    /\ pc_trace = "read"
    /\ entries = <<>>
    /\ entry_num = 0
    /\ token_files = <<>>
    /\ exports = <<>>

(* data = f.read(ENTRY_SIZE); if len(data) < ENTRY_SIZE: break             *)
TraceReadShort(chunk) ==
    /\ pc_trace = "read"
    /\ chunk.nbytes < ENTRY_SIZE
    /\ trace_file' = Append(trace_file, chunk)
    /\ pc_trace' = "parsed"
    /\ UNCHANGED <<entries, entry_num, token_files, exports>>
    /\ TraceFrame

(* entry = parse_entry(data, entry_num); if entry is None: break           *)
TraceReadNone(chunk) ==
    /\ pc_trace = "read"
    /\ chunk.nbytes >= ENTRY_SIZE
    /\ ParsesToNone(chunk)
    /\ trace_file' = Append(trace_file, chunk)
    /\ pc_trace' = "parsed"
    /\ UNCHANGED <<entries, entry_num, token_files, exports>>
    /\ TraceFrame

(* entries.append(entry); entry_num += 1                                   *)
TraceReadEntry(chunk) ==
    /\ pc_trace = "read"
    /\ Len(trace_file) < MaxRecords
    /\ chunk.nbytes >= ENTRY_SIZE
    /\ ~ParsesToNone(chunk)
    /\ trace_file' = Append(trace_file, chunk)
    /\ entries' = Append(entries, ParseEntry(chunk, entry_num))
    /\ entry_num' = entry_num + 1
    /\ UNCHANGED <<pc_trace, token_files, exports>>
    /\ TraceFrame

(* if not entries: return 1 *)
TraceNoEntries ==
    /\ pc_trace = "parsed"
    /\ entries = <<>>
    /\ pc_trace' = "exit1"
    /\ UNCHANGED <<trace_file, entries, entry_num, token_files, exports>>
    /\ TraceFrame

(* --export-json: one run of export_to_json_per_token on the entries; the  *)
(* tool may be run again on the same entries and the same directory.       *)
TraceExport ==
    /\ pc_trace \in {"parsed", "exported"}
    /\ entries # <<>>
    /\ Len(exports) < MaxExports
    /\ token_files' = ExportToJsonPerToken(entries, token_files)
    /\ exports' = Append(exports, token_files')
    /\ pc_trace' = "exported"
    /\ UNCHANGED <<trace_file, entries, entry_num>>
    /\ TraceFrame

TraceNext ==
    \/ \E chunk \in TraceChunks : TraceReadShort(chunk)
    \/ \E chunk \in TraceChunks : TraceReadNone(chunk)
    \/ \E chunk \in TraceChunks : TraceReadEntry(chunk)
    \/ TraceNoEntries
    \/ TraceExport

(***************************************************************************)
(*                      PATTERN CLASSIFICATION                             *)
(*        Benchmark/utils/analyze_blktrace.py classify_pattern             *)
(***************************************************************************)
MaxCount == 6

(* p > n for a quotient p with a positive denominator.                     *)
Above(p, n) == p.num > n * p.den

(* Mutant: each boundary value is put in the upper class.                  *)
ClassifyPattern_Inclusive(p) ==
    IF p.num >= 80 * p.den THEN "HIGHLY SEQUENTIAL"
    ELSE IF p.num >= 50 * p.den THEN "MOSTLY SEQUENTIAL"
    ELSE IF p.num >= 20 * p.den THEN "MIXED (Sequential + Random)"
    ELSE "HIGHLY RANDOM"

(* classify_pattern *)
ClassifyPattern(p) ==
    IF Above(p, 80) THEN "HIGHLY SEQUENTIAL"
    ELSE IF Above(p, 50) THEN "MOSTLY SEQUENTIAL"
    ELSE IF Above(p, 20) THEN "MIXED (Sequential + Random)"
    ELSE "HIGHLY RANDOM"

(* The counters of a stream that had at least one read.                    *)
ClassifyInit ==
    /\ cls_sequential \in 0..MaxCount
    /\ cls_random \in 0..MaxCount
    /\ sequential_percent = None
    /\ pattern_type = None
    /\ pc_classify = "result"

(* stream_analyze computes sequential_percent for its result.              *)
ClassifyPercent ==
    /\ pc_classify = "result"
    /\ sequential_percent' = Some(SequentialPercent(cls_sequential, cls_random))
    /\ pc_classify' = "percent"
    /\ UNCHANGED <<cls_sequential, cls_random, pattern_type>>
    /\ ClassifyFrame

(* main: pattern_type = classify_pattern(results["sequential_percent"])    *)
ClassifyLabel ==
    /\ pc_classify = "percent"
    /\ pattern_type' = Some(ClassifyPattern(Val(sequential_percent)))
    /\ pc_classify' = "classified"
    /\ UNCHANGED <<cls_sequential, cls_random, sequential_percent>>
    /\ ClassifyFrame

ClassifyNext ==
    \/ ClassifyPercent
    \/ ClassifyLabel

(***************************************************************************)
(* The specifications: one per tool.  The variables of the other tools     *)
(* stay at their initial values.                                           *)
(***************************************************************************)
ExtentIdle ==
    /\ filefrag_out = <<>>
    /\ pc_extent = "parse"
    /\ extents = <<>>
    /\ ext_i = 0
    /\ current_start = 0
    /\ current_end = 0
    /\ merged_extents = <<>>
    /\ sector_range = None

BatchIdle ==
    /\ trace = <<>>
    /\ llama_pid = WorkloadPid
    /\ gap_small = 4
    /\ gap_medium = 6
    /\ gguf_start_sector = MinSector(0)
    /\ gguf_end_sector = MaxSector(0)
    /\ pc_batch = "load"
    /\ reads = <<>>
    /\ analysis = None

BufferIdle ==
    /\ events = <<>>
    /\ line_num = 0
    /\ pc_buffer = "parse"
    /\ registry = <<>>
    /\ ev_i = 0
    /\ timeline = <<>>
    /\ active_buffers = <<>>
    /\ cumulative_size = 0
    /\ occupancy = <<>>
    /\ metadata = None

ClassifyIdle ==
    /\ cls_sequential = 0
    /\ cls_random = 0
    /\ sequential_percent = None
    /\ pattern_type = None
    /\ pc_classify = "result"

InitStream ==
    StreamInit /\ ExtentIdle /\ BatchIdle /\ BufferIdle /\ TraceInit /\ ClassifyIdle

InitExtent ==
    ExtentInit /\ StreamInit /\ BatchIdle /\ BufferIdle /\ TraceInit /\ ClassifyIdle

InitBatch ==
    BatchInit /\ StreamInit /\ ExtentIdle /\ BufferIdle /\ TraceInit /\ ClassifyIdle

InitBuffer ==
    BufferInit /\ StreamInit /\ ExtentIdle /\ BatchIdle /\ TraceInit /\ ClassifyIdle

InitTrace ==
    TraceInit /\ StreamInit /\ ExtentIdle /\ BatchIdle /\ BufferIdle /\ ClassifyIdle

InitClassify ==
    ClassifyInit /\ StreamInit /\ ExtentIdle /\ BatchIdle /\ BufferIdle /\ TraceInit

SpecStream == InitStream /\ [][StreamNext]_vars

SpecExtent == InitExtent /\ [][ExtentNext]_vars

SpecBatch == InitBatch /\ [][BatchNext]_vars

SpecBuffer == InitBuffer /\ [][BufferNext]_vars

SpecTrace == InitTrace /\ [][TraceNext]_vars

SpecClassify == InitClassify /\ [][ClassifyNext]_vars

(***************************************************************************)
(*                              CLAIMS                                     *)
(***************************************************************************)

(* The reads the streaming analyzer has counted, in input order, as        *)
(* (sector, size_sectors) rows.                                            *)
RECURSIVE CountedReads(_)
CountedReads(lines) ==
    IF lines = <<>> THEN <<>>
    ELSE LET l == Head(lines)
         IN  IF l.nparts >= 10 /\ HasR(l.rwbs) /\ l.ts.numeric
                /\ l.sector.numeric /\ l.size.numeric
             THEN <<[sector |-> l.sector.value, size_sectors |-> l.size.value]>>
                      \o CountedReads(Tail(lines))
             ELSE CountedReads(Tail(lines))

(* |sector - (prev_sector + prev_len)| of the k-th consecutive pair.       *)
PairDistance(rs, k) ==
    LET d == rs[k + 1].sector - (rs[k].sector + rs[k].size_sectors)
    IN  IF d < 0 THEN -d ELSE d

RECURSIVE SumDistances(_, _)
SumDistances(rs, k) ==
    IF k <= 0 THEN 0 ELSE PairDistance(rs, k) + SumDistances(rs, k - 1)

ExampleReads ==
    <<[sector |-> 1000, size_sectors |-> 8],
      [sector |-> 1008, size_sectors |-> 8],
      [sector |-> 5000, size_sectors |-> 8]>>

(* C1: in stream_analyze every pair of consecutive counted reads has gap   *)
(* |sector - (prev_sector + prev_len)|; the later read counts as           *)
(* sequential when the gap is <= 256 and as random otherwise.  The reads   *)
(* (1000,8),(1008,8),(5000,8) give gaps 0 and 3984, sequential = 1,        *)
(* random = 1 and sequential_percent = 50.                                 *)
C1_GapClassification ==
    LET rs == CountedReads(stream)
        pairs == 1..(Len(rs) - 1)
    IN  /\ sequential = Cardinality({k \in pairs : PairDistance(rs, k) <= 256})
        /\ random = Cardinality({k \in pairs : PairDistance(rs, k) > 256})
        /\ gap_sum = SumDistances(rs, Len(rs) - 1)
        /\ rs = ExampleReads =>
              /\ PairDistance(rs, 1) = 0 /\ PairDistance(rs, 2) = 3984
              /\ sequential = 1 /\ random = 1
              /\ pc_stream = "returned" =>
                    LET p == Val(results).sequential_percent
                    IN  p.num = 50 * p.den

C1_Witness ==
    /\ CountedReads(stream) = ExampleReads
    /\ pc_stream = "returned"
    /\ results # None
    /\ Val(results).sequential_reads = 1
    /\ Val(results).random_reads = 1

(* C2: the streaming analyzer counts a line only when it is a read and a   *)
(* dispatch ('D') action; a line with any other action changes none of     *)
(* total_reads, total_bytes, sequential, random or the remembered          *)
(* previous read.                                                          *)
C2_OnlyDispatchedCounted ==
    [][(Len(stream') = Len(stream) + 1 /\ stream'[Len(stream')].action # "D")
          => UNCHANGED <<total_reads, total_bytes, sequential, random,
                         prev_ts, prev_sector, prev_size>>]_vars

(* The batch engine's gap table over the reads the streaming analyzer      *)
(* counted.                                                                *)
StreamGaps == GapsTable(CountedReads(stream))

(* C7 as claimed: with gap_small = T the streaming sequential count is the *)
(* batch zero bucket plus small bucket, and random is every other gap.     *)
C7_Original ==
    LET T == SEQUENTIAL_THRESHOLD_SECTORS
        batch_sequential == CountPerfect(StreamGaps) + CountSmall(StreamGaps, T)
    IN  /\ sequential = batch_sequential
        /\ random = Len(StreamGaps) - batch_sequential

(* C7 (amended): the streaming analyzer classifies by |gap| <= T, the      *)
(* batch buckets by 0 <= gap < T.  The streaming sequential count equals   *)
(* the batch zero + small count plus the number of signed gaps that equal  *)
(* T or lie in [-T, 0); the random counts differ by the same number, so    *)
(* the two agree exactly when no gap equals T or lies in [-T, 0).          *)
C7_StreamBatchRelation ==
    LET T == SEQUENTIAL_THRESHOLD_SECTORS
        batch_sequential == CountPerfect(StreamGaps) + CountSmall(StreamGaps, T)
        extra == Cardinality({k \in DOMAIN StreamGaps :
                     StreamGaps[k] = T \/ (StreamGaps[k] < 0 /\ StreamGaps[k] >= -T)})
    IN  /\ sequential = batch_sequential + extra
        /\ random = Len(StreamGaps) - batch_sequential - extra
        /\ extra = 0 => C7_Original

C7_Witness ==
    /\ Len(StreamGaps) = 2
    /\ StreamGaps[1] = SEQUENTIAL_THRESHOLD_SECTORS
    /\ StreamGaps[2] < 0
    /\ StreamGaps[2] >= -SEQUENTIAL_THRESHOLD_SECTORS
    /\ sequential = 2
    /\ CountPerfect(StreamGaps) + CountSmall(StreamGaps, SEQUENTIAL_THRESHOLD_SECTORS) = 0

(* The extents filefrag printed, as a set: what a permutation of the       *)
(* input lines leaves unchanged.                                           *)
InputExtents ==
    {<<filefrag_out[i].start, filefrag_out[i].end>> :
        i \in {j \in DOMAIN filefrag_out : filefrag_out[j].match}}

(* An extent no other extent ends right before: the first of a maximal run *)
(* of adjacent extents.                                                    *)
RunStarts(S) == {x \in S : ~\E y \in S : y[2] + 1 = x[1]}

(* The last block of the run that goes through extent x.                   *)
RECURSIVE RunEnd(_, _)
RunEnd(x, S) ==
    IF \E y \in S : y[1] = x[2] + 1
    THEN RunEnd(CHOOSE y \in S : y[1] = x[2] + 1, S)
    ELSE x[2]

MaximalRuns(S) == {<<x[1], RunEnd(x, S)>> : x \in RunStarts(S)}

(* C3: for extents given in any order the merged list of                   *)
(* get_gguf_sector_range is sorted ascending by start, pairwise            *)
(* non-overlapping, and num_extents is the number of maximal runs of       *)
(* adjacent extents of the input; the result is a function of the set of   *)
(* input extents, so permuting the input does not change it.               *)
C3_MergeCorrect ==
    pc_extent = "returned" =>
        /\ \A i \in 1..(Len(merged_extents) - 1) :
              /\ merged_extents[i][1] < merged_extents[i + 1][1]
              /\ merged_extents[i][2] < merged_extents[i + 1][1]
        /\ \A i \in DOMAIN merged_extents :
              merged_extents[i][1] <= merged_extents[i][2]
        /\ Val(sector_range)[3] = Cardinality(RunStarts(InputExtents))
        /\ Len(merged_extents) = Val(sector_range)[3]
        /\ {merged_extents[i] : i \in DOMAIN merged_extents} = MaximalRuns(InputExtents)

(* Three extents printed out of order, two of them adjacent.               *)
C3_Witness ==
    /\ pc_extent = "returned"
    /\ Len(filefrag_out) = 5
    /\ filefrag_out[2].start > filefrag_out[3].start
    /\ filefrag_out[4].start = filefrag_out[2].end + 1
    /\ Len(merged_extents) = 2
    /\ Val(sector_range)[3] = 2

(* C4: the bound get_gguf_sector_range returns contains every sector of    *)
(* every input extent: for each extent (s, e), min_sector <= 8*s and       *)
(* 8*(e+1) <= max_sector (max_sector exclusive).  The extents (0,99),      *)
(* (100,199),(300,399) give the bound [0, 3200) and 2 merged extents.      *)
C4_BoundContainsExtents ==
    pc_extent = "returned" =>
        /\ \A x \in InputExtents :
              /\ Val(sector_range)[1] <= 8 * x[1]
              /\ 8 * (x[2] + 1) <= Val(sector_range)[2]
        /\ InputExtents = {<<0, 99>>, <<100, 199>>, <<300, 399>>} =>
              /\ sector_range = Some(<<0, 3200, 2>>)
              /\ merged_extents = <<<<0, 199>>, <<300, 399>>>>

C4_Witness ==
    /\ pc_extent = "returned"
    /\ InputExtents = {<<0, 99>>, <<100, 199>>, <<300, 399>>}
    /\ filefrag_out[2].start = 300
    /\ sector_range = Some(<<0, 3200, 2>>)

(* Some sector lies in the range [sector, sector + size_sectors) of more   *)
(* than one event of the table.                                            *)
SomeSectorCoveredTwice(rows) ==
    \E i, j \in DOMAIN rows :
        /\ i < j
        /\ rows[i].sector < rows[j].sector + rows[j].size_sectors
        /\ rows[j].sector < rows[i].sector + rows[i].size_sectors

(* C5: unique_bytes (512 x the number of distinct sectors in the union of  *)
(* the ranges of the read events) is <= total_bytes_read (the sum of the   *)
(* event byte lengths), with equality exactly when no sector is covered by *)
(* more than one event.                                                    *)
C5_UniqueAtMostTotal ==
    pc_batch = "written" =>
        LET doc == Val(analysis)
        IN  /\ doc.unique_bytes <= doc.total_bytes_read
            /\ (doc.unique_bytes = doc.total_bytes_read)
                   <=> ~SomeSectorCoveredTwice(reads)

(* Three reads, two of them overlapping in part.                           *)
C5_Witness ==
    /\ pc_batch = "written"
    /\ Len(reads) = 3
    /\ SomeSectorCoveredTwice(reads)
    /\ Val(analysis).total_bytes_read = 8 * 512
    /\ Val(analysis).unique_bytes = 6 * 512

BucketSum(dist) ==
    dist.perfect_sequential + dist.small_gaps + dist.medium_gaps
        + dist.large_gaps + dist.backward_seeks

(* The number of the five buckets gap k of the table is counted in.        *)
BucketsOfGap(gap, small, medium) ==
    Cardinality({b \in {"zero", "small", "medium", "large", "backward"} :
        \/ b = "zero" /\ gap = 0
        \/ b = "small" /\ gap > 0 /\ gap < small
        \/ b = "medium" /\ gap >= small /\ gap < medium
        \/ b = "large" /\ gap >= medium
        \/ b = "backward" /\ gap < 0})

(* C6 as claimed: for any caller-supplied gap_small and gap_medium the     *)
(* five bucket counts sum to total_events - 1.                             *)
C6_Original ==
    pc_batch = "written" =>
        BucketSum(Val(analysis).gap_distribution) = Val(analysis).total_reads - 1

(* C6 (amended): for thresholds with 0 < gap_small <= gap_medium every     *)
(* consecutive-event gap is counted in exactly one of the five buckets,    *)
(* so the five counts sum to total_events - 1.                             *)
C6_HistogramComplete ==
    (pc_batch = "written" /\ 0 < gap_small /\ gap_small <= gap_medium) =>
        /\ BucketSum(Val(analysis).gap_distribution) = Val(analysis).total_reads - 1
        /\ \A k \in 1..(Len(reads) - 1) :
              BucketsOfGap(reads[k + 1].sector - (reads[k].sector + reads[k].size_sectors),
                           gap_small, gap_medium) = 1

(* Two gaps, one of them equal to gap_small, under ordered thresholds.     *)
C6_Witness ==
    /\ pc_batch = "written"
    /\ gap_small = 4 /\ gap_medium = 6
    /\ Len(reads) = 3
    /\ reads[2].sector - (reads[1].sector + reads[1].size_sectors) = 4
    /\ reads[3].sector - (reads[2].sector + reads[2].size_sectors) < 0
    /\ Val(analysis).gap_distribution.medium_gaps = 1
    /\ Val(analysis).gap_distribution.backward_seeks = 1

(* The size an event carries (0 when it has none).                         *)
EventSize(e) == IF e.size = <<>> THEN 0 ELSE e.size[1]

(* Buffer id is active before event k: an alloc of it precedes k with no   *)
(* dealloc of it in between.                                               *)
ActiveBefore(k, id) ==
    \E j \in 1..(k - 1) :
        /\ events[j].event = "alloc" /\ events[j].buffer_id = id
        /\ \A m \in (j + 1)..(k - 1) :
              ~(events[m].event = "dealloc" /\ events[m].buffer_id = id)

(* The latest alloc of id before event k.                                  *)
LastAllocBefore(k, id) ==
    CHOOSE j \in 1..(k - 1) :
        /\ events[j].event = "alloc" /\ events[j].buffer_id = id
        /\ \A m \in (j + 1)..(k - 1) :
              ~(events[m].event = "alloc" /\ events[m].buffer_id = id)

OccupancyBefore(k) == IF k = 1 THEN 0 ELSE occupancy[k - 1]

RECURSIVE MaxOccupancy(_)
MaxOccupancy(occ) ==
    IF occ = <<>> THEN 0
    ELSE LET m == MaxOccupancy(Tail(occ))
         IN  IF Len(occ) = 1 \/ Head(occ) >= m THEN Head(occ) ELSE m

IsExampleReplay ==
    /\ Len(events) = 3
    /\ events[1].event = "alloc" /\ events[1].buffer_id = 1 /\ events[1].size = <<100>>
    /\ events[2].event = "alloc" /\ events[2].buffer_id = 2 /\ events[2].size = <<50>>
    /\ events[3].event = "dealloc" /\ events[3].buffer_id = 1

(* C8: in the replay each alloc increases the running cumulative size by   *)
(* the event's size, each dealloc of an active id decreases it by the size *)
(* recorded for that id, and peak_occupancy_bytes is the maximum           *)
(* cumulative size reached after any event.  alloc(1,100), alloc(2,50),    *)
(* dealloc(1) gives peak 150, final cumulative size 50, buffer 1 with a    *)
(* dealloc time and buffer 2 with dealloc_time_ms = None.                  *)
C8_OccupancyReplay ==
    /\ \A k \in DOMAIN occupancy :
          /\ events[k].event = "alloc" =>
                occupancy[k] = OccupancyBefore(k) + EventSize(events[k])
          /\ (events[k].event = "dealloc" /\ ActiveBefore(k, events[k].buffer_id)) =>
                occupancy[k] = OccupancyBefore(k)
                    - EventSize(events[LastAllocBefore(k, events[k].buffer_id)])
    /\ cumulative_size = OccupancyBefore(Len(occupancy) + 1)
    /\ pc_buffer = "done" =>
          /\ Len(occupancy) = Len(events)
          /\ Val(metadata).peak_occupancy_bytes = MaxOccupancy(occupancy)
          /\ IsExampleReplay =>
                /\ Val(metadata).peak_occupancy_bytes = 150
                /\ cumulative_size = 50
                /\ DictGet(registry, 1).dealloc_time_ms = <<events[3].timestamp_ms>>
                /\ DictGet(registry, 2).dealloc_time_ms = <<>>

C8_Witness ==
    /\ pc_buffer = "done"
    /\ IsExampleReplay
    /\ Val(metadata).peak_occupancy_bytes = 150
    /\ cumulative_size = 50
    /\ Len(active_buffers) = 1

(* The replay loop is at an event: the step that follows processes it.     *)
AtEvent == pc_buffer = "replay" /\ ev_i <= Len(events)

IdActive(id) == \E i \in DOMAIN active_buffers : active_buffers[i][1] = id

RecordedSize(act, id) ==
    act[CHOOSE i \in DOMAIN act : act[i][1] = id][2]

(* C9: an alloc event for a buffer id that is already active does not      *)
(* raise and does not merge: it replaces the size recorded for the id in   *)
(* the active map by the new size, leaves the number of active buffers     *)
(* unchanged, and a later dealloc of the id subtracts the new size.        *)
C9_ReallocLastWriteWins ==
    [][/\ (AtEvent /\ events[ev_i].event = "alloc"
              /\ IdActive(events[ev_i].buffer_id)) =>
             /\ pc_buffer' = "replay" /\ ev_i' = ev_i + 1
             /\ Len(active_buffers') = Len(active_buffers)
             /\ RecordedSize(active_buffers', events[ev_i].buffer_id)
                    = EventSize(events[ev_i])
       /\ (AtEvent /\ events[ev_i].event = "dealloc"
              /\ IdActive(events[ev_i].buffer_id)) =>
             cumulative_size' = cumulative_size
                 - EventSize(events[LastAllocBefore(ev_i, events[ev_i].buffer_id)])
      ]_vars

(* alloc(1,100), alloc(1,50), dealloc(1): the dealloc subtracted 50.       *)
C9_Witness ==
    /\ pc_buffer = "replay" /\ ev_i = 4
    /\ events[1].event = "alloc" /\ events[1].buffer_id = 1 /\ events[1].size = <<100>>
    /\ events[2].event = "alloc" /\ events[2].buffer_id = 1 /\ events[2].size = <<50>>
    /\ events[3].event = "dealloc" /\ events[3].buffer_id = 1
    /\ occupancy = <<100, 150, 100>>
    /\ timeline[2].num_active_buffers = 1
    /\ active_buffers = <<>>

(* C10: a dealloc event for a buffer id that is not active is skipped      *)
(* without aborting the replay: no timeline entry is appended, the active  *)
(* map, the cumulative size and the registry (every dealloc_time_ms) stay  *)
(* as they are, and the loop goes on to the next event.                    *)
C10_UnknownDeallocSkipped ==
    [][(AtEvent /\ events[ev_i].event = "dealloc"
           /\ ~IdActive(events[ev_i].buffer_id)) =>
          /\ UNCHANGED <<timeline, active_buffers, cumulative_size, registry>>
          /\ pc_buffer' = "replay"
          /\ ev_i' = ev_i + 1
      ]_vars

(* A dealloc of an id that was never allocated, then an alloc that is      *)
(* replayed as usual.                                                      *)
C10_Witness ==
    /\ pc_buffer = "done"
    /\ Len(events) = 3
    /\ events[1].event = "alloc" /\ events[1].buffer_id = 1
    /\ events[2].event = "dealloc" /\ events[2].buffer_id = 2
    /\ events[3].event = "alloc" /\ events[3].buffer_id = 2
    /\ Len(timeline) = 2
    /\ timeline[2].num_active_buffers = 2
    /\ DictGet(registry, 2).dealloc_time_ms = <<>>

(***************************************************************************)
(*                 Claims about the tensor trace tools                     *)
(***************************************************************************)

(* The documents in the output directory, one per token file.              *)
TokenDocs == {token_files[k][2][1] : k \in DOMAIN token_files}

(* C11: in every per-token document the entries are in timestamp order:    *)
(* entry_id increases along the list and timestamp_ns never decreases,     *)
(* whatever order the events of the token had in the decoded input.        *)
C11_EntriesByTimestamp ==
    \A doc \in TokenDocs :
        \A i, j \in DOMAIN doc.entries :
            i < j => /\ doc.entries[i].entry_id < doc.entries[j].entry_id
                     /\ doc.entries[i].timestamp_ns <= doc.entries[j].timestamp_ns

(* C12: a second run of the aggregator on the same decoded events and the  *)
(* same directory leaves what the first run left: the same token files     *)
(* and in each the same single document (metadata and entries in order),   *)
(* one file per token id of the input.                                     *)
C12_ExportIdempotent ==
    \A r \in DOMAIN exports :
        /\ exports[r] = exports[1]
        /\ {exports[r][k][1] : k \in DOMAIN exports[r]}
               = {entries[i].token_id : i \in DOMAIN entries}
        /\ \A k \in DOMAIN exports[r] :
               /\ Len(exports[r][k][2]) = 1
               /\ exports[r][k][2][1].token_id = exports[r][k][1]

(* Two runs over three events of two tokens.                               *)
C12_Witness ==
    /\ Len(exports) = 2
    /\ Len(entries) = 3
    /\ Len(token_files) = 2
    /\ \E k \in DOMAIN token_files : Len(token_files[k][2][1].entries) = 2

(* A chunk that ends the decoding: a read shorter than a record, or a      *)
(* record whose leading timestamp is zero.                                 *)
IsTerminator(chunk) == chunk.nbytes < 1024 \/ chunk.timestamp_ns = 0

(* The chunks read before the first terminator.                            *)
RECURSIVE BeforeTerminator(_)
BeforeTerminator(chunks) ==
    IF chunks = <<>> \/ IsTerminator(Head(chunks)) THEN <<>>
    ELSE <<Head(chunks)>> \o BeforeTerminator(Tail(chunks))

(* C13: the decoded entries are exactly the complete records before the    *)
(* first terminator (a record with timestamp zero, or a short read), in    *)
(* file order and numbered from 0; nothing is read after the terminator,   *)
(* and the loop ends normally on it.                                       *)
C13_DecodeUpToTerminator ==
    LET valid == BeforeTerminator(trace_file)
    IN  /\ Len(entries) = Len(valid)
        /\ \A i \in DOMAIN entries :
               /\ entries[i].entry_num = i - 1
               /\ entries[i].timestamp_ns = valid[i].timestamp_ns
               /\ entries[i].token_id = valid[i].token_id
               /\ entries[i].timestamp_ns # 0
        /\ \A i \in DOMAIN trace_file :
               IsTerminator(trace_file[i]) => i = Len(trace_file)
        /\ (pc_trace = "read") = (Len(valid) = Len(trace_file))
        /\ pc_trace \in {"read", "parsed", "exported", "exit1"}

(* Two records, then an unused slot with timestamp zero.                   *)
C13_Witness ==
    /\ pc_trace = "parsed"
    /\ Len(trace_file) = 3
    /\ trace_file[3].nbytes = 1024 /\ trace_file[3].timestamp_ns = 0
    /\ Len(entries) = 2

(* No decoded entry, source descriptor or exported document carries the    *)
(* sentinel as a number.                                                   *)
TraceSentinelsAbsent ==
    /\ \A i \in DOMAIN entries :
           /\ entries[i].layer_id # Some(65535)
           /\ \A k \in DOMAIN entries[i].sources :
                  /\ entries[i].sources[k].layer_id # Some(65535)
                  /\ entries[i].sources[k].tensor_idx # Some(TENSOR_IDX_NONE)
    /\ \A doc \in TokenDocs :
           \A i \in DOMAIN doc.entries :
               /\ doc.entries[i].layer_id # Some(65535)
               /\ \A k \in DOMAIN doc.entries[i].sources :
                      doc.entries[i].sources[k].layer_id # Some(65535)

(* No registry entry carries the layer sentinel as a number.               *)
RegistrySentinelsAbsent ==
    \A k \in DOMAIN registry : registry[k][2].layer # 65535

(* C14: in every structure the tools produce (decoded entries, their       *)
(* source descriptors, per-token documents, the buffer registry) a layer   *)
(* id of 65535 and a tensor index of 0xFFFFFFFF appear as None, never as   *)
(* the sentinel number.                                                    *)
C14_SentinelsAbsent == TraceSentinelsAbsent /\ RegistrySentinelsAbsent

(* C15: for every decoded event the sources list is exactly the source     *)
(* slots 0..num_sources-1 and expert_ids exactly the expert slots          *)
(* 0..num_experts-1, and the num_sources and num_experts values the event  *)
(* carries are the lengths of the two lists.                               *)
C15_CountsBoundLists ==
    \A i \in DOMAIN entries :
        LET raw == trace_file[i]
            e == entries[i]
        IN  /\ Len(e.sources) = e.num_sources
            /\ Len(e.expert_ids) = e.num_experts
            /\ e.num_sources = raw.num_sources
            /\ e.num_experts = raw.num_experts
            /\ \A k \in DOMAIN e.sources : e.sources[k].name = raw.sources[k].name
            /\ \A k \in DOMAIN e.expert_ids : e.expert_ids[k] = raw.expert_ids_raw[k]

(***************************************************************************)
(*          Claims about the scoping of the batch analytics engine         *)
(***************************************************************************)

(* A dispatched read of the workload pid that starts in [lo, hi).          *)
InScope(row, lo, hi) ==
    /\ row.action = "D"
    /\ \E k \in DOMAIN row.rwbs : row.rwbs[k] = "R"
    /\ row.pid = llama_pid
    /\ lo <= row.sector /\ row.sector < hi

(* C16: table reads holds exactly the trace rows that are dispatched reads *)
(* of the recorded workload pid and start inside the half-open bound       *)
(* [min_sector, max_sector) of the extent mapper; a row that starts at     *)
(* max_sector is not in it.                                                *)
C16_ReadsHalfOpen ==
    pc_batch \in {"filtered", "returned", "written"} =>
        /\ {reads[k] : k \in DOMAIN reads}
               = {trace[k] : k \in {j \in DOMAIN trace :
                                       InScope(trace[j], gguf_start_sector,
                                               gguf_end_sector)}}
        /\ \A k \in DOMAIN reads : reads[k].sector # gguf_end_sector

(* C17: when the filtered reads table is empty, analyze_with_duckdb ends   *)
(* without an error and with a result: an analysis document whose counts   *)
(* are zero.                                                               *)
C17_EmptyTableZeroResult ==
    (pc_batch \in {"returned", "written"} /\ reads = <<>>) =>
        /\ analysis # None
        /\ Val(analysis).total_reads = 0

(***************************************************************************)
(*          Claims about the results of the streaming analyzer             *)
(***************************************************************************)

C19_ClassifyBoundaries ==
    pc_classify = "classified" =>
        LET s == cls_sequential
            n == cls_sequential + cls_random
            label == Val(pattern_type)
        IN  /\ label \in {"HIGHLY SEQUENTIAL", "MOSTLY SEQUENTIAL",
                          "MIXED (Sequential + Random)", "HIGHLY RANDOM"}
            /\ (label = "HIGHLY SEQUENTIAL") = (n > 0 /\ 100 * s > 80 * n)
            /\ (label = "MOSTLY SEQUENTIAL")
                   = (n > 0 /\ 100 * s > 50 * n /\ 100 * s <= 80 * n)
            /\ (label = "MIXED (Sequential + Random)")
                   = (n > 0 /\ 100 * s > 20 * n /\ 100 * s <= 50 * n)
            /\ (label = "HIGHLY RANDOM") = (n = 0 \/ 100 * s <= 20 * n)

(* Four sequential gaps out of five: exactly 80 percent, the lower class.  *)
C19_Witness ==
    /\ pc_classify = "classified"
    /\ cls_sequential = 4 /\ cls_random = 1
    /\ pattern_type = Some("MOSTLY SEQUENTIAL")

(* A line the analyzer passes over: too few fields (headers and footers    *)
(* among them), not a read, or a timestamp, sector or length that is not   *)
(* a number.                                                               *)
IsSkippedLine(l) ==
    \/ l.nparts < 10
    \/ \A k \in DOMAIN l.rwbs : l.rwbs[k] # "R"
    \/ ~l.ts.numeric \/ ~l.sector.numeric \/ ~l.size.numeric

RECURSIVE WithoutSkipped(_)
WithoutSkipped(lines) ==
    IF lines = <<>> THEN <<>>
    ELSE (IF IsSkippedLine(Head(lines)) THEN <<>> ELSE <<Head(lines)>>)
         \o WithoutSkipped(Tail(lines))

RECURSIVE SumSizeSectors(_)
SumSizeSectors(lines) ==
    IF lines = <<>> THEN 0
    ELSE Head(lines).size.value + SumSizeSectors(Tail(lines))

(* C20: a skipped line (fewer than 10 fields, a header or footer, a        *)
(* non-read, a non-numeric timestamp, sector or length) raises nothing and *)
(* leaves every accumulator and the remembered previous read as they       *)
(* were, so the totals and the remembered read are those of the input      *)
(* with the skipped lines removed.                                         *)
C20_SkippedLinesNoEffect ==
    /\ [](LET kept == WithoutSkipped(stream)
          IN  /\ total_reads = Len(kept)
              /\ total_bytes = 512 * SumSizeSectors(kept)
              /\ gap_count = (IF kept = <<>> THEN 0 ELSE Len(kept) - 1)
              /\ IF kept = <<>>
                 THEN prev_sector = None /\ prev_size = None /\ prev_ts = None
                 ELSE /\ prev_sector = Some(kept[Len(kept)].sector.value)
                      /\ prev_size = Some(kept[Len(kept)].size.value)
                      /\ prev_ts = Some(kept[Len(kept)].ts.value))
    /\ [][(Len(stream') = Len(stream) + 1 /\ IsSkippedLine(stream'[Len(stream')]))
             => /\ UNCHANGED StreamAccumulators
                /\ pc_stream' = "loop"
                /\ results' = results]_vars

(* A read, then a short line and a line whose sector is not a number, and  *)
(* the result counts the one read.                                         *)
C20_Witness ==
    /\ pc_stream = "returned"
    /\ Len(stream) = 3
    /\ ~IsSkippedLine(stream[1])
    /\ stream[2].nparts < 10
    /\ stream[3].nparts >= 10 /\ ~stream[3].sector.numeric
    /\ results # None
    /\ Val(results).total_reads = 1

(* The lines of the input the analyzer passed over.                        *)
NumSkippedLines(lines) == Cardinality({i \in DOMAIN lines : IsSkippedLine(lines[i])})

(* The keys of the result document other than the nine read metrics.       *)
SkipCountKeys(doc) ==
    DOMAIN doc \ {"total_reads", "total_mb_read", "sequential_reads",
                  "random_reads", "sequential_percent", "avg_gap_kb",
                  "mean_interval_ms", "min_interval_ms", "max_interval_ms"}

(* C21: the lines the streaming analyzer skips are counted and the count   *)
(* of skipped records is part of the result document it returns.           *)
C21_SkippedCountInResult ==
    (pc_stream = "returned" /\ results # None) =>
        \E key \in SkipCountKeys(Val(results)) :
            Val(results)[key] = NumSkippedLines(stream)

(* C22: get_gguf_sector_range raises (ValueError) and returns no range     *)
(* exactly when no line of the listing matched the extent pattern; with    *)
(* one matching line or more it never raises, and what it returns is a     *)
(* range.                                                                  *)
C22_ZeroExtentsHardError ==
    /\ pc_extent = "ValueError" =>
           NumExtentLines(filefrag_out) = 0 /\ sector_range = None
    /\ pc_extent \in {"merge", "returned"} => NumExtentLines(filefrag_out) >= 1
    /\ pc_extent = "returned" => sector_range # None
    /\ sector_range # None => pc_extent = "returned"

(* A listing of a header and a summary only.                               *)
C22_Witness ==
    /\ pc_extent = "ValueError"
    /\ Len(filefrag_out) = 2
    /\ sector_range = None

(* The reads whose timestamp, truncated to whole seconds, is second s.     *)
ReadsInSecond(s) == {i \in DOMAIN reads : reads[i].timestamp \div 1000 = s}

RECURSIVE SumWindows(_, _)
SumWindows(ws, field) ==
    IF ws = <<>> THEN 0 ELSE Head(ws)[field] + SumWindows(Tail(ws), field)

(* C23: in the bandwidth metric every read is counted in exactly one       *)
(* 1-second window, the window whose index is the read's timestamp         *)
(* truncated to whole seconds; the windows' operation counts sum to        *)
(* total_reads and their bytes to the total bytes read.                    *)
C23_WindowsByTruncatedSecond ==
    (pc_batch = "written") =>
        LET doc == Val(analysis)
            ws == doc.bandwidth
        IN  /\ \A w \in DOMAIN ws :
                /\ ws[w].operations = Cardinality(ReadsInSecond(ws[w].time_bucket))
                /\ ws[w].bytes_read = SumBytesAt(reads, ReadsInSecond(ws[w].time_bucket))
            /\ \A i \in DOMAIN reads :
                   \E w \in DOMAIN ws : ws[w].time_bucket = reads[i].timestamp \div 1000
            /\ \A v, w \in DOMAIN ws : ws[v].time_bucket = ws[w].time_bucket => v = w
            /\ SumWindows(ws, "operations") = doc.total_reads
            /\ SumWindows(ws, "bytes_read") = doc.total_bytes_read

(* The timestamps of the decoded events of token tok.                      *)
GroupTimestamps(tok) ==
    {entries[i].timestamp_ns : i \in {j \in DOMAIN entries : entries[j].token_id = tok}}

GroupMin(tok) == CHOOSE x \in GroupTimestamps(tok) : \A y \in GroupTimestamps(tok) : x <= y

GroupMax(tok) == CHOOSE x \in GroupTimestamps(tok) : \A y \in GroupTimestamps(tok) : x >= y

GroupSize(tok) == Cardinality({j \in DOMAIN entries : entries[j].token_id = tok})

(* An exported value, in thousandths of a millisecond, is the nanosecond   *)
(* difference ns rounded to the nearest thousandth.                        *)
IsRoundedMs(value, ns) == Abs(1000 * value - ns) <= 500

(* C24 as stated: the exported duration is exactly max - min of the        *)
(* group's timestamps, every relative timestamp is exactly timestamp_ns -  *)
(* group minimum and lies in [0, duration], timestamp_start_ns is the      *)
(* group minimum and total_entries the number of decoded events of the     *)
(* token.                                                                  *)
C24_Original ==
    \A doc \in TokenDocs :
        LET tok == doc.token_id
            md == doc.metadata
        IN  /\ 1000 * md.duration_ms = GroupMax(tok) - GroupMin(tok)
            /\ md.duration_ms >= 0
            /\ md.timestamp_start_ns = GroupMin(tok)
            /\ md.total_entries = GroupSize(tok)
            /\ \A k \in DOMAIN doc.entries :
                   LET e == doc.entries[k]
                   IN  /\ 1000 * e.timestamp_relative_ms = e.timestamp_ns - GroupMin(tok)
                       /\ e.timestamp_relative_ms >= 0
                       /\ e.timestamp_relative_ms <= md.duration_ms

(* C24: for every token group timestamp_start_ns is the group minimum,     *)
(* total_entries is the number of decoded events of the token, the         *)
(* exported duration is max - min of the group's timestamps in             *)
(* milliseconds rounded to three decimals and is >= 0, and every entry's   *)
(* relative timestamp is timestamp_ns - group minimum in milliseconds      *)
(* rounded to three decimals and lies in [0, duration].                    *)
C24_DurationAndRelativeRounded ==
    \A doc \in TokenDocs :
        LET tok == doc.token_id
            md == doc.metadata
        IN  /\ IsRoundedMs(md.duration_ms, GroupMax(tok) - GroupMin(tok))
            /\ md.duration_ms >= 0
            /\ md.timestamp_start_ns = GroupMin(tok)
            /\ md.total_entries = GroupSize(tok)
            /\ Len(doc.entries) = GroupSize(tok)
            /\ \A k \in DOMAIN doc.entries :
                   LET e == doc.entries[k]
                   IN  /\ e.token_id = tok
                       /\ IsRoundedMs(e.timestamp_relative_ms,
                                      e.timestamp_ns - GroupMin(tok))
                       /\ e.timestamp_relative_ms >= 0
                       /\ e.timestamp_relative_ms <= md.duration_ms

(* A token whose first decoded event is not its earliest and whose         *)
(* duration is not a whole number of microseconds.                         *)
C24_Witness ==
    /\ pc_trace = "exported"
    /\ \E doc \in TokenDocs :
           /\ Len(doc.entries) >= 2
           /\ doc.entries[1].timestamp_ns > doc.metadata.timestamp_start_ns
           /\ (GroupMax(doc.token_id) - GroupMin(doc.token_id)) % 1000 # 0

(* C25: the events are replayed in timestamp order, whatever the order of  *)
(* the lines of the input: the timestamp_ms values along the occupancy     *)
(* timeline never decrease, and an alloc is applied before a dealloc of    *)
(* the same id that has a later timestamp.                                 *)
C25_ReplayInTimestampOrder ==
    /\ \A p, q \in DOMAIN timeline :
           p < q => timeline[p].timestamp_ms <= timeline[q].timestamp_ms
    /\ \A p, q \in DOMAIN timeline :
           (/\ timeline[p].event = "alloc"
            /\ timeline[q].event = "dealloc"
            /\ timeline[p].buffer_id = timeline[q].buffer_id
            /\ timeline[p].timestamp_ms < timeline[q].timestamp_ms) => p < q

(* An object lacking one of the common fields.                             *)
IsMalformedEvent(event) ==
    ~(HasKey(event, "timestamp_ms") /\ HasKey(event, "event")
        /\ HasKey(event, "buffer_id"))

WithoutMalformed(evs) == SelectSeq(evs, LAMBDA e : ~IsMalformedEvent(e))

(* The registry and the timeline generate_output builds from a list of     *)
(* well-formed events: st holds the registry, the timeline, the active map *)
(* and the cumulative size after the events replayed so far.               *)
RECURSIVE ReplayOf(_, _)
ReplayOf(evs, st) ==
    IF evs = <<>> THEN st
    ELSE LET e == Head(evs)
             id == e.buffer_id
         IN  ReplayOf(Tail(evs),
                 IF e.event = "alloc"
                 THEN LET act == Activate(st.active, id, SizeOf(e))
                          cum == AddSize(st.cumulative, SizeOf(e))
                      IN  [st EXCEPT !.active = act, !.cumulative = cum,
                               !.timeline = Append(@,
                                   TimelineEntry(e, "alloc", SizeOf(e), cum, act))]
                 ELSE IF e.event = "dealloc" /\ DictHas(st.active, id)
                 THEN LET size == DictGet(st.active, id)
                          act == DictPop(st.active, id)
                          cum == SubtractSize(st.cumulative, size)
                      IN  [registry |-> SetDeallocTime(st.registry, id, e.timestamp_ms),
                           active |-> act, cumulative |-> cum,
                           timeline |-> Append(st.timeline,
                               TimelineEntry(e, "dealloc", size, cum, act))]
                 ELSE st)

OutputOf(evs) ==
    ReplayOf(evs, [registry |-> BuildBufferRegistry(evs, <<>>), timeline |-> <<>>,
                   active |-> <<>>, cumulative |-> 0])

(* C26: a malformed line (text json.loads rejects, or an object lacking    *)
(* timestamp_ms, event or buffer_id) is skipped without aborting the run,  *)
(* and the registry and the timeline of the run equal those of the input   *)
(* with the malformed lines removed.                                       *)
C26_MalformedLinesSkipped ==
    /\ pc_buffer # "KeyError"
    /\ pc_buffer = "done" =>
           /\ registry = OutputOf(WithoutMalformed(events)).registry
           /\ timeline = OutputOf(WithoutMalformed(events)).timeline

(* The sum of the sizes held in a dict id -> size.                         *)
RECURSIVE SumValues(_)
SumValues(d) == IF d = <<>> THEN 0 ELSE Head(d)[2] + SumValues(Tail(d))

(* The sizes overwritten in the active map by the first k events: the size *)
(* an id held when an alloc of the same, still active id replaced it.      *)
RECURSIVE OverwrittenBefore(_)
OverwrittenBefore(k) ==
    IF k <= 0 THEN 0
    ELSE OverwrittenBefore(k - 1) +
         (IF events[k].event = "alloc" /\ ActiveBefore(k, events[k].buffer_id)
          THEN EventSize(events[LastAllocBefore(k, events[k].buffer_id)])
          ELSE 0)

(* C27 as stated: after every event processed cumulative_size is the sum   *)
(* of the sizes in the active map, is never negative, and is 0 whenever no *)
(* buffer is active.                                                       *)
C27_Original ==
    /\ cumulative_size = SumValues(active_buffers)
    /\ cumulative_size >= 0
    /\ active_buffers = <<>> => cumulative_size = 0

(* C27: after every event processed by compute_occupancy_timeline, for     *)
(* events with non-negative sizes, cumulative_size is the sum of the sizes *)
(* in the active map plus the sizes that allocs of already active ids have *)
(* overwritten there; so it is never negative and never below the sum of   *)
(* the active sizes, and it equals that sum (0 when no buffer is active)   *)
(* as long as no active id has been allocated again.                       *)
C27_CumulativeIsActivePlusOverwritten ==
    /\ cumulative_size = SumValues(active_buffers) + OverwrittenBefore(ev_i - 1)
    /\ cumulative_size >= SumValues(active_buffers)
    /\ cumulative_size >= 0
    /\ OverwrittenBefore(ev_i - 1) = 0 =>
           /\ cumulative_size = SumValues(active_buffers)
           /\ active_buffers = <<>> => cumulative_size = 0
    /\ \A k \in DOMAIN occupancy : occupancy[k] >= 0

(* An id allocated with 100, allocated again with 50 while active, then    *)
(* deallocated: nothing is active and the cumulative size is 100.          *)
C27_Witness ==
    /\ pc_buffer = "done"
    /\ Len(events) = 3
    /\ events[1].event = "alloc" /\ events[1].size = <<100>>
    /\ events[2].event = "alloc" /\ events[2].size = <<50>>
    /\ events[2].buffer_id = events[1].buffer_id
    /\ events[3].event = "dealloc" /\ events[3].buffer_id = events[1].buffer_id
    /\ active_buffers = <<>>
    /\ cumulative_size = 100

(* The events are given in non-decreasing timestamp order.                 *)
EventsInTimestampOrder ==
    \A i, j \in DOMAIN events : i < j => events[i].timestamp_ms <= events[j].timestamp_ms

(* C28: after generate_output on events given in non-decreasing timestamp  *)
(* order, a registry entry has dealloc_time_ms None exactly when its id is *)
(* still active at the end of the replay, and every dealloc_time_ms that   *)
(* is not None is >= the entry's alloc_time_ms.                            *)
C28_DeallocTimeMatchesActivity ==
    (pc_buffer = "done" /\ EventsInTimestampOrder) =>
        \A k \in DOMAIN registry :
            LET info == registry[k][2]
            IN  /\ (info.dealloc_time_ms = None) <=> IdActive(info.id)
                /\ info.dealloc_time_ms # None =>
                       Val(info.dealloc_time_ms) >= info.alloc_time_ms

(* C29: after any prefix of the input lines, sequential + random =         *)
(* gap_count = interval_count = max(total_reads - 1, 0), and total_bytes   *)
(* is 512 times the sum of the lengths, in sectors, of the counted reads.  *)
C29_CountersConsistent ==
    /\ sequential + random = gap_count
    /\ gap_count = interval_count
    /\ interval_count = Max2(total_reads - 1, 0)
    /\ total_reads = Len(WithoutSkipped(stream))
    /\ total_bytes = 512 * SumSizeSectors(WithoutSkipped(stream))

(* Three counted reads, one gap sequential and one random.                 *)
C29_Witness ==
    /\ total_reads = 3
    /\ sequential = 1
    /\ random = 1
    /\ total_bytes > 0

(* C30: in every analysis document written, gap_distribution.total is      *)
(* total_reads - 1, the number of gaps between consecutive reads, also     *)
(* when the filtered table holds exactly one read.                         *)
C30_GapTotalIsReadsMinusOne ==
    (pc_batch = "written") =>
        Val(analysis).gap_distribution.total = Val(analysis).total_reads - 1

====
